---------------------------- MODULE Spec2Model ----------------------------
(***************************************************************************)
(* Trend ranking and surge scoring engine of trendix-ai-server.            *)
(*                                                                         *)
(* Numbers.  The code computes with Python floats and PostgreSQL numerics;  *)
(* the model computes in fixed point:                                      *)
(*   - composite score terms in thousandths ("milli"),                     *)
(*   - round(x, 2) as round-half-even of thousandths to hundredths         *)
(*     ("centi"); surge_score and trend_score are kept in hundredths,       *)
(*   - exp(-0.05 * age_hours) in millionths, tabulated per whole hour,      *)
(*   - 0.1 * ln(max(views, 1) + 10) in thousandths, tabulated per count,    *)
(*   - ratios (normalized_view_score, cosine similarity) exactly, as        *)
(*     fractions compared by cross multiplication.                         *)
(* Dates are day offsets from the current UTC date (0 = today, -1 =         *)
(* yesterday); the clock reads the last instant of today, so a video aged   *)
(* h whole hours was published on day -(h \div 24).                         *)
(* SQL NULL / Python None is the empty sequence <<>>, a present value x is  *)
(* <<x>>.                                                                  *)
(***************************************************************************)
EXTENDS Integers, Sequences, FiniteSets, TLC

VARIABLES
    video,          \* table video: video_id -> row
    snapshot,       \* table video_metrics_snapshot: video_id -> set of rows
    video_score,    \* table video_score: video_id -> <<>> or <<row>>
    request,        \* parameters of the request being served
    surge,          \* outcome of the last fetch_surge_videos call
    trend,          \* lists last returned by fetch_popular_videos / fetch_rising_videos
    dedup,          \* candidate list and outcome of the last _dedup_by_embedding call
    rerank,         \* candidate list, query and outcome of the last _rerank_by_query call
    intent,         \* prototype cache (_prototype_embeds) and the intent classification calls
    featured,       \* parameters and outcome of get_featured / _enforce_diversity
    chat,           \* the chat endpoints: answer_with_trends and the event stream
    features        \* sample series and outcome of compute_surge_features

\* The state of the usecase and web layers.
usecaseVars == <<rerank, intent, featured, chat, features>>

vars == <<video, snapshot, video_score, request, surge, trend, dedup,
          rerank, intent, featured, chat, features>>

NoRerank ==
    [items |-> <<>>, query |-> "", called |-> FALSE, query_embeds |-> <<>>,
     item_embeds |-> <<>>, output |-> <<>>]

NoIntent == [prototypes |-> <<>>]

\* TrendFeaturedUseCase before a call: the arguments of get_featured, the
\* category_trend table, what the store was asked for, the returned dict,
\* and the list handed to _enforce_diversity with its output.
NoFeatured ==
    [called |-> FALSE, limit_popular |-> 1, limit_rising |-> 1, query |-> <<>>,
     category_trend |-> <<>>, asked_popular |-> 0, asked_rising |-> 0,
     result |-> [popular |-> <<>>, rising |-> <<>>, categories |-> <<>>,
                 recommended |-> <<>>, summary |-> ""],
     items |-> <<>>, diversified |-> FALSE, diverse |-> <<>>]

\* The /chat/stream handler before a request: the request and the trends
\* get_featured will return, the position of event_generator, the stream it
\* iterates, whether the client has gone, the events sent and the number of
\* calls of the text-generation service.
NoChat ==
    [pc |-> "idle", conversation_id |-> FALSE, intent |-> "trend",
     trends |-> [popular |-> <<>>, rising |-> <<>>],
     stream |-> <<>>, disconnected |-> FALSE, events |-> <<>>,
     generation_calls |-> 0]

\* compute_surge_features before a call: its arguments and no result.
NoFeatures ==
    [called |-> FALSE, samples |-> <<>>, published_at |-> <<>>,
     channel_baseline_velocities_10m |-> <<>>, co_movement_score |-> <<>>,
     result |-> <<>>]

\* The usecase and web layers at rest.
UsecaseIdle ==
    /\ rerank = NoRerank
    /\ intent = NoIntent
    /\ featured = NoFeatured
    /\ chat = NoChat
    /\ features = NoFeatures

\* Nothing fetched yet.
NoTrend ==
    [popular_fetched |-> FALSE, popular |-> <<>>,
     rising_fetched |-> FALSE, rising |-> <<>>]

\* No candidate list handed to dedup yet.
NoDedup ==
    [items |-> <<>>, calls |-> 0, input |-> <<>>, embeddings |-> <<>>,
     output |-> <<>>, answers |-> <<>>]

---------------------------------------------------------------------------
(* Generic helpers *)

Null == <<>>

Some(x) == <<x>>

IsNull(o) == o = <<>>

Val(o) == o[1]

\* COALESCE over a sequence of optional values: the first that is present.
RECURSIVE Coalesce(_)
Coalesce(os) ==
    IF os = <<>> THEN Null
    ELSE IF ~IsNull(Head(os)) THEN Head(os)
    ELSE Coalesce(Tail(os))

Max2(a, b) == IF a >= b THEN a ELSE b

\* Integer division truncating toward zero (PostgreSQL integer "/").
TruncDiv(a, b) == IF a >= 0 THEN a \div b ELSE -((-a) \div b)

\* Python round(x, 2) of a value held in thousandths: the nearest hundredth,
\* halves to even.
RoundHalfEven(milli) ==
    LET q == milli \div 10
        r == milli % 10
    IN  IF r < 5 THEN q
        ELSE IF r > 5 THEN q + 1
        ELSE IF q % 2 = 0 THEN q ELSE q + 1

Range(s) == {s[i] : i \in DOMAIN s}

\* All orderings (sequences without repetition) of a finite set.
Orderings(S) ==
    {s \in [1..Cardinality(S) -> S] : \A i, j \in 1..Cardinality(S) : i # j => s[i] # s[j]}

Prefix(s, n) == SubSeq(s, 1, IF n < Len(s) THEN n ELSE Len(s))

---------------------------------------------------------------------------
(* The store: tables video, video_metrics_snapshot and video_score *)

VideoIds == {"v1", "v2", "v3"}

\* Bounds of the requests: limit in 1..MaxLimit, velocity_days in
\* 1..MaxVelocityDays, and at most MaxCalls successive calls per behaviour.
MaxLimit == 3

MaxVelocityDays == 2

MaxCalls == 2

\* The clock of the ranking computation: to_date = today = day 0.
ToDate == 0

\* v.published_at::date for a video aged h hours.
PublishedDate(h) == -(Max2(h, 0) \div 24)

\* The snapshot of video vid with the greatest snapshot_date among those
\* satisfying the date bound: ORDER BY snapshot_date DESC LIMIT 1.
LatestOf(rows) ==
    IF rows = {} THEN Null
    ELSE Some(CHOOSE s \in rows : \A t \in rows : t.snapshot_date <= s.snapshot_date)

\* LATERAL curr: the latest snapshot dated at or before to_date.
SurgeCurr(vid) ==
    LatestOf({s \in snapshot[vid] : s.snapshot_date <= ToDate})

\* LATERAL prev: the latest snapshot dated strictly before the video's newest
\* snapshot date (MAX(s2.snapshot_date)).
SurgePrev(vid) ==
    LET all == snapshot[vid]
    IN  IF all = {} THEN Null
        ELSE LET newest == CHOOSE d \in {s.snapshot_date : s \in all} :
                              \A t \in all : t.snapshot_date <= d
             IN  LatestOf({s \in all : s.snapshot_date < newest})

Field(o, f) == IF IsNull(o) THEN Null ELSE Some(Val(o)[f])

\* A column of the video_score row LEFT JOINed to video vid: NULL when the
\* video has no row.
ScoreField(vid, f) ==
    IF IsNull(video_score[vid]) THEN Null ELSE Val(video_score[vid])[f]

\* COALESCE(sc.total_score, sc.sentiment_score, sc.trend_score, 0)
SurgeTotalScore(vid) ==
    Val(Coalesce(<<ScoreField(vid, "total_score"),
                   ScoreField(vid, "sentiment_score"),
                   ScoreField(vid, "trend_score"),
                   Some(0)>>))

\* One row of the SELECT of fetch_surge_videos.
SurgeRow(vid, velocity_days) ==
    LET v    == video[vid]
        curr == SurgeCurr(vid)
        prev == SurgePrev(vid)
        vc   == Val(Coalesce(<<Field(curr, "view_count"), Some(v.view_count), Some(0)>>))
        vp   == Val(Coalesce(<<Field(prev, "view_count"), Some(0)>>))
        lc   == Val(Coalesce(<<Field(curr, "like_count"), Some(v.like_count), Some(0)>>))
        lp   == Val(Coalesce(<<Field(prev, "like_count"), Some(0)>>))
        cc   == Val(Coalesce(<<Field(curr, "comment_count"), Some(v.comment_count), Some(0)>>))
        cp   == Val(Coalesce(<<Field(prev, "comment_count"), Some(0)>>))
    IN  [video_id |-> vid,
         platform |-> v.platform,
         channel_id |-> v.channel_id,
         view_count |-> vc,
         view_count_prev |-> vp,
         like_count |-> lc,
         like_count_prev |-> lp,
         comment_count |-> cc,
         comment_count_prev |-> cp,
         view_velocity |-> TruncDiv(vc - vp, velocity_days),
         like_velocity |-> TruncDiv(lc - lp, velocity_days),
         comment_velocity |-> TruncDiv(cc - cp, velocity_days),
         total_score |-> SurgeTotalScore(vid),
         published_at |-> v.published_at,
         crawled_at |-> v.crawled_at]

\* WHERE COALESCE(v.published_at::date, v.crawled_at::date) BETWEEN :from_date
\* AND :to_date AND (:platform IS NULL OR v.platform = :platform)
SurgeInWindow(vid, platform, days) ==
    LET v == video[vid]
        d == IF IsNull(v.published_at) THEN v.crawled_at
             ELSE PublishedDate(Val(v.published_at))
        from_date == ToDate - (days - 1)
    IN  /\ from_date <= d
        /\ d <= ToDate
        /\ (IsNull(platform) \/ v.platform = Val(platform))

\* Lexicographic "strictly greater" on integer sequences of equal length.
RECURSIVE LexGreater(_, _)
LexGreater(a, b) ==
    IF a = <<>> THEN FALSE
    ELSE IF Head(a) # Head(b) THEN Head(a) > Head(b)
    ELSE LexGreater(Tail(a), Tail(b))

\* The ORDER BY keys of fetch_surge_videos, all descending, NULLS LAST.
SurgeOrderKey(r) ==
    <<IF r.view_count - r.view_count_prev > 0 THEN 1 ELSE 0,
      r.view_velocity,
      r.comment_velocity,
      r.like_velocity,
      r.view_count,
      r.total_score,
      IF IsNull(r.published_at) THEN 0 ELSE 1,
      IF IsNull(r.published_at) THEN 0 ELSE -Val(r.published_at)>>

\* The rows row[o[1]], row[o[2]], ... of an ordering o of video ids.
RECURSIVE RowsInOrder(_, _, _)
RowsInOrder(row, o, i) ==
    IF i > Len(o) THEN <<>>
    ELSE <<row[o[i]]>> \o RowsInOrder(row, o, i + 1)

\* The row sequences the store may return: every ordering of the matching
\* rows that respects ORDER BY (rows equal on every key come in any order),
\* cut to LIMIT.
SurgeRowSeqs(platform, limit, days, velocity_days) ==
    LET ids == {vid \in VideoIds : SurgeInWindow(vid, platform, days)}
        row == [vid \in ids |-> SurgeRow(vid, velocity_days)]
        key == [vid \in ids |-> SurgeOrderKey(row[vid])]
    IN  {Prefix(RowsInOrder(row, o, 1), limit) :
            o \in {p \in Orderings(ids) :
                     \A i, j \in DOMAIN p :
                        i < j => ~LexGreater(key[p[j]], key[p[i]])}}

---------------------------------------------------------------------------
(* fetch_surge_videos: the scoring loop *)

\* 1000000 * exp(-0.05 * h) for the whole-hour ages of the model.
ExpDecayMicro(h) ==
    CASE h = 0   -> 1000000
      [] h = 10  -> 606531
      [] h = 24  -> 301194
      [] h = 25  -> 286505
      [] h = 30  -> 223130
      [] h = 48  -> 90718
      [] h = 49  -> 86294
      [] h = 72  -> 27324
      [] h = 73  -> 25991
      [] h = 192 -> 68
      [] h = 240 -> 6

\* 1000 * 0.1 * ln(max(views, 1) + 10) for the view counts of the model.
PopularityMilli(views) ==
    CASE views \in {0, 1} -> 240
      [] views = 50   -> 409
      [] views = 99   -> 469
      [] views = 100  -> 470
      [] views = 101  -> 471
      [] views = 150  -> 508
      [] views = 200  -> 535
      [] views = 500  -> 623
      [] views = 1000 -> 692
      [] views = 1900 -> 755
      [] views = 2000 -> 761

\* The fallback lookup: the latest youtube snapshot of the video dated at or
\* before yesterday whose view_count differs from the current one.
AltSnapshot(vid, current_view) ==
    LatestOf({s \in snapshot[vid] :
                /\ video[vid].platform = "youtube"
                /\ s.snapshot_date <= ToDate - 1
                /\ s.view_count # current_view})

\* view_prev after the "same value" fallback.
SurgeViewPrev(r) ==
    IF r.view_count_prev = r.view_count /\ r.view_count_prev > 0
    THEN LET alt == AltSnapshot(r.video_id, r.view_count)
         IN  IF IsNull(alt) THEN r.view_count_prev ELSE Val(alt).view_count
    ELSE r.view_count_prev

\* growth_rate * 100, in thousandths.
GrowthFactorMilli(view_now, view_prev) ==
    IF view_prev > 0 THEN TruncDiv((view_now - view_prev) * 100000, view_prev) ELSE 0

\* round(freshness_score, 4) in ten-thousandths: exp(-0.05 * age_hours), and
\* 0.5 when published_at is unknown.
FreshnessScore(published_at) ==
    IF IsNull(published_at) THEN 5000
    ELSE (ExpDecayMicro(Max2(Val(published_at), 0)) + 50) \div 100

\* The brackets with their upper boundaries in the older bracket.
FreshnessBonusExclusive(age_hours) ==
    IF age_hours < 24 THEN 15
    ELSE IF age_hours < 48 THEN 12
    ELSE IF age_hours < 72 THEN 11
    ELSE 10

\* freshness_bonus in tenths: 1.5, 1.2, 1.1, 1.0 by age bracket.
FreshnessBonus(age_hours) ==
    IF age_hours <= 24 THEN 15
    ELSE IF age_hours <= 48 THEN 12
    ELSE IF age_hours <= 72 THEN 11
    ELSE 10

\* freshness_score_with_bonus * 50, in thousandths; 0.5 * 50 when published_at
\* is unknown.
FreshnessFactorMilli(published_at) ==
    IF IsNull(published_at) THEN 25000
    ELSE LET age_hours == Max2(Val(published_at), 0)
         IN  (ExpDecayMicro(age_hours) * FreshnessBonus(age_hours) * 5) \div 1000

\* The unrounded composite surge score of a row, in thousandths.
SurgeScoreMilli(r) ==
    GrowthFactorMilli(r.view_count, SurgeViewPrev(r))
    + r.view_velocity
    + PopularityMilli(r.view_count)
    + FreshnessFactorMilli(r.published_at)

\* The item the loop builds for the row at position rank of the result set.
SurgeItem(r, rank) ==
    LET view_prev == SurgeViewPrev(r)
    IN  [video_id |-> r.video_id,
         platform |-> r.platform,
         channel_id |-> r.channel_id,
         view_count |-> r.view_count,
         view_velocity |-> r.view_velocity,
         total_score |-> r.total_score,
         published_at |-> r.published_at,
         age_hours |-> IF IsNull(r.published_at) THEN Null
                       ELSE Some(Max2(Val(r.published_at), 0)),
         freshness_score |-> FreshnessScore(r.published_at),
         freshness_bonus |-> IF IsNull(r.published_at) THEN 10
                             ELSE FreshnessBonus(Max2(Val(r.published_at), 0)),
         view_count_change |-> r.view_count - view_prev,
         surge_score |-> RoundHalfEven(SurgeScoreMilli(r)),
         trending_rank |-> rank]

\* for rank, r in enumerate(rows, 1): ... result.append(item)
RECURSIVE SurgeItems(_, _)
SurgeItems(rows, rank) ==
    IF rank > Len(rows) THEN <<>>
    ELSE <<SurgeItem(rows[rank], rank)>> \o SurgeItems(rows, rank + 1)

\* A sort that is not stable: x goes before the items of equal key.
RECURSIVE InsertDescUnstable(_, _)
InsertDescUnstable(sorted, x) ==
    IF sorted = <<>> THEN <<x>>
    ELSE IF Head(sorted).surge_score > x.surge_score
         THEN <<Head(sorted)>> \o InsertDescUnstable(Tail(sorted), x)
         ELSE <<x>> \o sorted

\* sorted(result, key=surge_score, reverse=True): a stable sort, items of
\* equal key keep their order.  Insert x after every item whose key is >= x's.
RECURSIVE InsertDesc(_, _)
InsertDesc(sorted, x) ==
    IF sorted = <<>> THEN <<x>>
    ELSE IF Head(sorted).surge_score >= x.surge_score
         THEN <<Head(sorted)>> \o InsertDesc(Tail(sorted), x)
         ELSE <<x>> \o sorted

\* The final sort left out: the items stay in the order of the delivered rows.
SortBySurgeScoreSkipped(items) == items

RECURSIVE SortBySurgeScore(_)
SortBySurgeScore(items) ==
    IF items = <<>> THEN <<>>
    ELSE InsertDesc(SortBySurgeScore(Prefix(items, Len(items) - 1)), items[Len(items)])

---------------------------------------------------------------------------
(* fetch_surge_videos: the score write and the call as a whole *)

\* The upsert as a row replacement: the conflicting row is overwritten whole.
UpsertReplacingRow(scores, item) ==
    [scores EXCEPT ![item.video_id] =
        Some([platform |-> item.platform,
              engagement_score |-> Null,
              sentiment_score |-> Null,
              trend_score |-> Some(item.surge_score),
              total_score |-> Null,
              updated_at |-> Some(0)])]

\* INSERT INTO video_score ... ON CONFLICT (video_id) DO UPDATE SET
\* trend_score, updated_at.  updated_at is the clock of the call (0).
Upsert(scores, item) ==
    IF IsNull(scores[item.video_id])
    THEN [scores EXCEPT ![item.video_id] =
            Some([platform |-> item.platform,
                  engagement_score |-> Null,
                  sentiment_score |-> Null,
                  trend_score |-> Some(item.surge_score),
                  total_score |-> Null,
                  updated_at |-> Some(0)])]
    ELSE [scores EXCEPT ![item.video_id] =
            Some([Val(scores[item.video_id]) EXCEPT
                    !.trend_score = Some(item.surge_score),
                    !.updated_at = Some(0)])]

\* The upsert without its try/except: a raising statement ends the call.
TryUpsertPropagating(scores, item, fails) ==
    [scores |-> IF fails THEN scores ELSE Upsert(scores, item),
     raised |-> fails]

\* try: db.execute(upsert) except Exception: pass
\* fails says whether the statement raises.
TryUpsert(scores, item, fails) ==
    [scores |-> IF fails THEN scores ELSE Upsert(scores, item),
     raised |-> FALSE]

\* for idx, item in enumerate(result_sorted, 1): rank, then the upsert.
RECURSIVE WriteLoop(_, _, _, _)
WriteLoop(items, idx, scores, failed) ==
    IF idx > Len(items)
    THEN [items |-> items, scores |-> scores, raised |-> FALSE]
    ELSE LET ranked == [items EXCEPT ![idx].trending_rank = idx]
             w == TryUpsert(scores, ranked[idx], ranked[idx].video_id \in failed)
         IN  IF w.raised
             THEN [items |-> ranked, scores |-> scores, raised |-> TRUE]
             ELSE WriteLoop(ranked, idx + 1, w.scores, failed)

\* The list the call returns for the rows the store delivered.
SurgeRanking(rows) ==
    WriteLoop(SortBySurgeScore(SurgeItems(rows, 1)), 1, video_score, {}).items

\* try: db.commit() except Exception: db.rollback()
\* The store is PostgreSQL: a statement that raises aborts the transaction,
\* so the writes of the call persist only when no upsert raised and the
\* commit succeeded.
CommitScores(before, written, any_failed, commit_fails) ==
    IF any_failed \/ commit_fails THEN before ELSE written

\* The video ids of a row sequence, in order.
RECURSIVE RowIds(_)
RowIds(rows) ==
    IF rows = <<>> THEN <<>> ELSE <<Head(rows).video_id>> \o RowIds(Tail(rows))

\* The rows of a sequence of video ids, as the SELECT computes them now.
RECURSIVE RowsOfIds(_, _)
RowsOfIds(ids, velocity_days) ==
    IF ids = <<>> THEN <<>>
    ELSE <<SurgeRow(Head(ids), velocity_days)>> \o RowsOfIds(Tail(ids), velocity_days)

\* One call of fetch_surge_videos(platform, limit, days, velocity_days).
\* The environment decides the order of rows that tie on every ORDER BY key,
\* which upserts raise, and whether the commit raises.
FetchSurgeVideos ==
    /\ surge.calls < MaxCalls
    /\ \E rows \in SurgeRowSeqs(request.platform, request.limit, request.days,
                                request.velocity_days) :
         LET result == SurgeItems(rows, 1)
             result_sorted == SortBySurgeScore(result)
         IN  \E failed \in SUBSET {rows[i].video_id : i \in DOMAIN rows} :
               LET loop == WriteLoop(result_sorted, 1, video_score, failed)
                   returned == IF loop.raised THEN <<>> ELSE loop.items
                   row_ids == RowIds(rows)
               IN  \E commit_fails \in BOOLEAN :
                     /\ surge' = [calls |-> surge.calls + 1,
                                  raised |-> loop.raised,
                                  rows |-> row_ids,
                                  result |-> returned,
                                  write_failed |-> failed # {},
                                  commit_failed |-> commit_fails]
                     /\ video_score' = IF loop.raised THEN video_score
                                       ELSE CommitScores(video_score, loop.scores,
                                                         failed # {}, commit_fails)
                     /\ UNCHANGED <<video, snapshot, request, trend, dedup, usecaseVars>>

---------------------------------------------------------------------------
(* Stores and requests of the surge specification *)

Snap(d, views, likes, comments) ==
    [snapshot_date |-> d, view_count |-> views, like_count |-> likes,
     comment_count |-> comments]

VideoRow(platform, channel, views, likes, published, crawled) ==
    [platform |-> platform, channel_id |-> channel, title |-> "t1",
     view_count |-> views, like_count |-> likes, comment_count |-> 0,
     published_at |-> published, crawled_at |-> crawled]

\* A video and its snapshot series.
SurgeProfiles ==
    << [v |-> VideoRow("youtube", "c1", 100, 5, Some(30), -1), s |-> {}],
       [v |-> VideoRow("youtube", "c1", 101, 0, Some(30), -1), s |-> {}],
       [v |-> VideoRow("youtube", "c2", 100, 0, Some(24), -1),
        s |-> {Snap(-1, 200, 0, 0), Snap(0, 100, 0, 0)}],
       [v |-> VideoRow("youtube", "c3", 1000, 20, Null, -1),
        s |-> {Snap(-1, 500, 10, 0), Snap(0, 1000, 20, 0)}],
       [v |-> VideoRow("tiktok", "c3", 500, 0, Some(48), -2), s |-> {}] >>

ScoreRow(engagement, sentiment, trending, total) ==
    Some([platform |-> "youtube", engagement_score |-> engagement,
          sentiment_score |-> sentiment, trend_score |-> trending,
          total_score |-> total, updated_at |-> Some(-1)])

\* Contents of video_score before the first call: no row, or a row per video
\* holding an engagement score and an earlier trend_score.
SurgeScoreTables ==
    { [vid \in VideoIds |-> Null],
      [vid \in VideoIds |-> ScoreRow(Some(40), Null, Some(500), Null)] }

SurgeRequests ==
    [platform : {Null, Some("youtube")},
     limit : 1..MaxLimit,
     days : {3},
     velocity_days : 1..MaxVelocityDays]

NoSurge ==
    [calls |-> 0, raised |-> FALSE, rows |-> <<>>, result |-> <<>>,
     write_failed |-> FALSE, commit_failed |-> FALSE]

VideoSeq == <<"v1", "v2", "v3">>

\* Video ids carry no meaning: the profiles are assigned in profile order.
SurgeInit ==
    /\ \E prof \in [1..Len(VideoSeq) -> DOMAIN SurgeProfiles] :
          /\ \A i, j \in DOMAIN prof : i < j => prof[i] <= prof[j]
          /\ video = [vid \in VideoIds |->
                        SurgeProfiles[prof[CHOOSE i \in DOMAIN VideoSeq : VideoSeq[i] = vid]].v]
          /\ snapshot = [vid \in VideoIds |->
                        SurgeProfiles[prof[CHOOSE i \in DOMAIN VideoSeq : VideoSeq[i] = vid]].s]
    /\ video_score \in SurgeScoreTables
    /\ request \in SurgeRequests
    /\ surge = NoSurge
    /\ trend = NoTrend
    /\ dedup = NoDedup
    /\ UsecaseIdle

SurgeNext == FetchSurgeVideos

SurgeSpec == SurgeInit /\ [][SurgeNext]_vars

---------------------------------------------------------------------------
(* Properties of fetch_surge_videos *)

\* Position of a video in the row sequence the store delivered to the last call.
RowPos(vid) == CHOOSE i \in DOMAIN surge.rows : surge.rows[i] = vid

\* What a caller sees of a ranking: which video at which rank with which score.
RECURSIVE RankingOf(_)
RankingOf(items) ==
    IF items = <<>> THEN <<>>
    ELSE <<<<Head(items).video_id, Head(items).surge_score, Head(items).trending_rank>>>>
         \o RankingOf(Tail(items))

\* The unrounded composite score of a returned video, in thousandths.
Unrounded(vid) == SurgeScoreMilli(SurgeRow(vid, request.velocity_days))

\* The rankings a call on the present store may return.
PossibleRankings ==
    {RankingOf(SurgeRanking(rows)) :
        rows \in SurgeRowSeqs(request.platform, request.limit, request.days,
                              request.velocity_days)}

\* C1: the list returned by fetch_surge_videos holds the delivered rows in
\* order of non-increasing surge_score, the item at position i carries
\* trending_rank i (dense 1..N), and items of equal surge_score keep the
\* order in which the store delivered them.
C1_SortedDenseStable ==
    (surge.calls > 0 /\ ~surge.raised) =>
        LET res == surge.result
        IN  /\ Len(res) = Len(surge.rows)
            /\ {res[i].video_id : i \in DOMAIN res} = Range(surge.rows)
            /\ \A i \in DOMAIN res : res[i].trending_rank = i
            /\ \A i, j \in DOMAIN res :
                  i < j =>
                    /\ res[i].surge_score >= res[j].surge_score
                    /\ (res[i].surge_score = res[j].surge_score
                          => RowPos(res[i].video_id) < RowPos(res[j].video_id))

\* C1 witness: three videos returned, two of them with equal surge_score, in
\* an order that differs from the order of the delivered rows.
C1_Witness ==
    /\ surge.calls > 0
    /\ Len(surge.result) = 3
    /\ \E i \in 1..2 : surge.result[i].surge_score = surge.result[i + 1].surge_score
    /\ \E i \in 1..2 : surge.result[i].surge_score > surge.result[i + 1].surge_score
    /\ RowIds(surge.result) # surge.rows

\* C2 as claimed: of two returned videos whose unrounded composite scores
\* differ, the one with the larger unrounded score has the smaller
\* trending_rank, also when both round to the same surge_score.
C2_FullPrecisionClaim ==
    (surge.calls > 0 /\ ~surge.raised) =>
        \A i, j \in DOMAIN surge.result :
            Unrounded(surge.result[i].video_id) > Unrounded(surge.result[j].video_id)
                => surge.result[i].trending_rank < surge.result[j].trending_rank

\* C2 as amended: of two returned videos whose unrounded composite scores
\* differ, the one with the larger unrounded score never has the smaller
\* surge_score; it has the smaller trending_rank when the 2-decimal
\* surge_scores differ, and when both round to the same surge_score the rank
\* follows the order in which the store delivered the rows, not the unrounded
\* score.
C2_RoundedThenStoreOrder ==
    (surge.calls > 0 /\ ~surge.raised) =>
        \A i, j \in DOMAIN surge.result :
            LET a == surge.result[i]
                b == surge.result[j]
            IN  Unrounded(a.video_id) > Unrounded(b.video_id) =>
                    /\ a.surge_score >= b.surge_score
                    /\ a.surge_score > b.surge_score => a.trending_rank < b.trending_rank
                    /\ a.surge_score = b.surge_score =>
                          (a.trending_rank < b.trending_rank
                              <=> RowPos(a.video_id) < RowPos(b.video_id))

\* C2 witness: two returned videos round to the same surge_score and the one
\* with the smaller unrounded score is ranked first; another pair is ranked
\* by differing surge_scores against the order of the delivered rows.
C2_Witness ==
    /\ surge.calls > 0
    /\ \E i, j \in DOMAIN surge.result :
          /\ surge.result[i].surge_score = surge.result[j].surge_score
          /\ Unrounded(surge.result[i].video_id) < Unrounded(surge.result[j].video_id)
          /\ surge.result[i].trending_rank < surge.result[j].trending_rank
    /\ \E i, j \in DOMAIN surge.result :
          /\ surge.result[i].surge_score > surge.result[j].surge_score
          /\ RowPos(surge.result[i].video_id) > RowPos(surge.result[j].video_id)

C4_RankingIgnoresTrendScore ==
    surge.calls > 0 => RankingOf(surge.result) \in PossibleRankings

---------------------------------------------------------------------------
(* fetch_popular_videos and fetch_rising_videos *)

\* The platform filter as a narrowing over the platforms the store knows: an
\* unknown platform filters nothing.
PlatformMatchesKnownOnly(vid, platform) ==
    \/ IsNull(platform)
    \/ \A other \in VideoIds : video[other].platform # Val(platform)
    \/ video[vid].platform = Val(platform)

\* WHERE (:platform IS NULL OR v.platform = :platform)
PlatformMatches(vid, platform) ==
    IsNull(platform) \/ video[vid].platform = Val(platform)

\* The window frame without PARTITION BY: every row that passes the filter.
ChannelPeersUnpartitioned(vid, platform) ==
    {w \in VideoIds : PlatformMatches(w, platform)}

\* The window frame of OVER (PARTITION BY v.channel_id): the rows of the
\* filtered video table that share the video's channel_id.
ChannelPeers(vid, platform) ==
    {w \in VideoIds : /\ PlatformMatches(w, platform)
                      /\ video[w].channel_id = video[vid].channel_id}

RECURSIVE SumViewCount(_)
SumViewCount(S) ==
    IF S = {} THEN 0
    ELSE LET w == CHOOSE x \in S : TRUE
         IN  video[w].view_count + SumViewCount(S \ {w})

\* AVG(v.view_count) OVER (PARTITION BY v.channel_id), as the exact fraction
\* num / den.
ChannelAvgView(vid, platform) ==
    [num |-> SumViewCount(ChannelPeers(vid, platform)),
     den |-> Cardinality(ChannelPeers(vid, platform))]

\* CASE WHEN channel_avg_view > 0 THEN view_count / channel_avg_view
\*      ELSE view_count END, as the exact fraction num / den.
NormalizedViewScore(vid, platform) ==
    LET avg == ChannelAvgView(vid, platform)
    IN  IF avg.num > 0
        THEN [num |-> video[vid].view_count * avg.den, den |-> avg.num]
        ELSE [num |-> video[vid].view_count, den |-> 1]

\* Comparison of two fractions with positive denominators.
FracGreater(a, b) == a.num * b.den > b.num * a.den

FracEqual(a, b) == a.num * b.den = b.num * a.den

\* One row of fetch_popular_videos' SELECT; the model holds no
\* video_sentiment row, so the LEFT JOINed category is NULL.
PopularRow(vid, platform) ==
    [video_id |-> vid,
     title |-> video[vid].title,
     category |-> Null,
     channel_id |-> video[vid].channel_id,
     platform |-> video[vid].platform,
     view_count |-> video[vid].view_count,
     score_sentiment |-> ScoreField(vid, "sentiment_score"),
     score_trend |-> ScoreField(vid, "trend_score"),
     total_score |-> ScoreField(vid, "total_score"),
     crawled_at |-> video[vid].crawled_at,
     channel_avg_view |-> ChannelAvgView(vid, platform),
     normalized_view_score |-> NormalizedViewScore(vid, platform)]

\* ORDER BY normalized_view_score DESC,
\*          COALESCE(total_score, view_count, score_sentiment, score_trend) DESC,
\*          view_count DESC, crawled_at DESC: row a sorts strictly before row b.
PopularBefore(a, b) ==
    IF ~FracEqual(a.normalized_view_score, b.normalized_view_score)
    THEN FracGreater(a.normalized_view_score, b.normalized_view_score)
    ELSE LexGreater(
           <<Val(Coalesce(<<a.total_score, Some(a.view_count),
                            a.score_sentiment, a.score_trend>>)),
             a.view_count, a.crawled_at>>,
           <<Val(Coalesce(<<b.total_score, Some(b.view_count),
                            b.score_sentiment, b.score_trend>>)),
             b.view_count, b.crawled_at>>)

\* CTE curr: the latest snapshot of the video.
RisingCurr(vid) == LatestOf(snapshot[vid])

\* CTE prev: the latest snapshot dated at or before CURRENT_DATE - velocity_days.
RisingPrev(vid, velocity_days) ==
    LatestOf({s \in snapshot[vid] : s.snapshot_date <= ToDate - velocity_days})

\* COALESCE(c.view_count, l.view_count, 0)
RisingCurrViews(vid) ==
    Val(Coalesce(<<Field(RisingCurr(vid), "view_count"),
                   Some(video[vid].view_count), Some(0)>>))

\* A prev that falls back on the current count when no snapshot qualifies.
RisingPrevViewsDefaultCurrent(vid, velocity_days) ==
    Val(Coalesce(<<Field(RisingPrev(vid, velocity_days), "view_count"),
                   Some(RisingCurrViews(vid))>>))

\* COALESCE(p.view_count, 0)
RisingPrevViews(vid, velocity_days) ==
    Val(Coalesce(<<Field(RisingPrev(vid, velocity_days), "view_count"), Some(0)>>))

\* The velocity without GREATEST(..., 0).
RisingViewVelocityUnfloored(vid, velocity_days) ==
    TruncDiv(RisingCurrViews(vid) - RisingPrevViews(vid, velocity_days), velocity_days)

\* GREATEST(COALESCE(c.view_count, l.view_count, 0) - COALESCE(p.view_count, 0), 0)
\*   / NULLIF(:velocity_days, 0), an integer division; velocity_days >= 1 here.
RisingViewVelocity(vid, velocity_days) ==
    TruncDiv(Max2(RisingCurrViews(vid) - RisingPrevViews(vid, velocity_days), 0),
             velocity_days)

\* One row of fetch_rising_videos' SELECT.
RisingRow(vid, platform, velocity_days) ==
    [video_id |-> vid,
     title |-> video[vid].title,
     category |-> Null,
     channel_id |-> video[vid].channel_id,
     platform |-> video[vid].platform,
     view_count |-> video[vid].view_count,
     total_score |-> ScoreField(vid, "total_score"),
     crawled_at |-> video[vid].crawled_at,
     channel_avg_view |-> ChannelAvgView(vid, platform),
     view_velocity |-> RisingViewVelocity(vid, velocity_days),
     normalized_view_score |-> NormalizedViewScore(vid, platform)]

\* COALESCE(l.total_score, l.view_count) DESC, l.crawled_at DESC
RisingTailKey(r) ==
    <<Val(Coalesce(<<r.total_score, Some(r.view_count)>>)), r.crawled_at>>

\* ORDER BY view_velocity DESC, normalized_view_score DESC,
\*          COALESCE(l.total_score, l.view_count) DESC, l.crawled_at DESC:
\* row a sorts strictly before row b.
RisingBefore(a, b) ==
    IF a.view_velocity # b.view_velocity THEN a.view_velocity > b.view_velocity
    ELSE IF ~FracEqual(a.normalized_view_score, b.normalized_view_score)
    THEN FracGreater(a.normalized_view_score, b.normalized_view_score)
    ELSE LexGreater(RisingTailKey(a), RisingTailKey(b))

\* The lists fetch_popular_videos may return: every ordering of the filtered
\* rows that respects ORDER BY, cut to LIMIT.
PopularRowSeqs(platform, limit) ==
    LET ids == {vid \in VideoIds : PlatformMatches(vid, platform)}
        row == [vid \in ids |-> PopularRow(vid, platform)]
    IN  {Prefix(RowsInOrder(row, o, 1), limit) :
            o \in {p \in Orderings(ids) :
                     \A i, j \in DOMAIN p :
                        i < j => ~PopularBefore(row[p[j]], row[p[i]])}}

\* The lists fetch_rising_videos may return.
RisingRowSeqs(platform, limit, velocity_days) ==
    LET ids == {vid \in VideoIds : PlatformMatches(vid, platform)}
        row == [vid \in ids |-> RisingRow(vid, platform, velocity_days)]
    IN  {Prefix(RowsInOrder(row, o, 1), limit) :
            o \in {p \in Orderings(ids) :
                     \A i, j \in DOMAIN p :
                        i < j => ~RisingBefore(row[p[j]], row[p[i]])}}

\* One call of fetch_popular_videos(limit, platform); a request fetches each
\* list once (get_featured).
FetchPopularVideos ==
    /\ ~trend.popular_fetched
    /\ \E rows \in PopularRowSeqs(request.platform, request.limit) :
          trend' = [trend EXCEPT !.popular_fetched = TRUE, !.popular = rows]
    /\ UNCHANGED <<video, snapshot, video_score, request, surge, dedup, usecaseVars>>

\* One call of fetch_rising_videos(limit, velocity_days, platform).
FetchRisingVideos ==
    /\ ~trend.rising_fetched
    /\ \E rows \in RisingRowSeqs(request.platform, request.limit, request.velocity_days) :
          trend' = [trend EXCEPT !.rising_fetched = TRUE, !.rising = rows]
    /\ UNCHANGED <<video, snapshot, video_score, request, surge, dedup, usecaseVars>>

---------------------------------------------------------------------------
(* Stores and requests of the popular / rising specification *)

\* A video and its snapshot series; the channel is assigned separately.
\*   1  A: 1000 views, 500 a week ago        2  B: 2000 views, 1900 a week ago
\*   3  C: 500 views, no snapshot            4  declined from 150 to 100
\*   5  flat at 100                          6  300 views, 200 yesterday
\*   7  no views yet, on another platform
TrendProfiles ==
    << [v |-> VideoRow("youtube", "c1", 1000, 0, Some(30), -1),
        s |-> {Snap(-7, 500, 0, 0), Snap(0, 1000, 0, 0)}],
       [v |-> VideoRow("youtube", "c1", 2000, 0, Some(30), -1),
        s |-> {Snap(-7, 1900, 0, 0), Snap(0, 2000, 0, 0)}],
       [v |-> VideoRow("youtube", "c1", 500, 0, Some(30), -1), s |-> {}],
       [v |-> VideoRow("youtube", "c1", 100, 0, Some(30), -1),
        s |-> {Snap(-7, 150, 0, 0), Snap(0, 100, 0, 0)}],
       [v |-> VideoRow("youtube", "c1", 100, 0, Some(30), -1),
        s |-> {Snap(-7, 100, 0, 0), Snap(0, 100, 0, 0)}],
       [v |-> VideoRow("youtube", "c1", 300, 0, Some(30), 0),
        s |-> {Snap(-1, 200, 0, 0), Snap(0, 300, 0, 0)}],
       [v |-> VideoRow("tiktok", "c1", 0, 0, Some(30), -2), s |-> {}] >>

TrendChannels == {"c1", "c2"}

\* Contents of video_score: no row, or a row per video with a total_score.
TrendScoreTables ==
    { [vid \in VideoIds |-> Null],
      [vid \in VideoIds |-> ScoreRow(Some(40), Null, Some(500), Some(700))] }

TrendRequests ==
    [platform : {Null, Some("youtube")},
     limit : 1..MaxLimit,
     days : {3},
     velocity_days : 1..MaxVelocityDays]

\* Video ids and channel ids carry no meaning: the profiles are assigned in
\* profile order and the first video is in the first channel.
TrendInit ==
    /\ \E prof \in [1..Len(VideoSeq) -> DOMAIN TrendProfiles] :
       \E chan \in [VideoIds \ {VideoSeq[1]} -> TrendChannels] :
          /\ \A i, j \in DOMAIN prof : i < j => prof[i] <= prof[j]
          /\ video = [vid \in VideoIds |->
                        [TrendProfiles[prof[CHOOSE i \in DOMAIN VideoSeq : VideoSeq[i] = vid]].v
                           EXCEPT !.channel_id = IF vid = VideoSeq[1] THEN "c1" ELSE chan[vid]]]
          /\ snapshot = [vid \in VideoIds |->
                        TrendProfiles[prof[CHOOSE i \in DOMAIN VideoSeq : VideoSeq[i] = vid]].s]
    /\ video_score \in TrendScoreTables
    /\ request \in TrendRequests
    /\ surge = NoSurge
    /\ trend = NoTrend
    /\ dedup = NoDedup
    /\ UsecaseIdle

TrendNext == FetchPopularVideos \/ FetchRisingVideos

TrendSpec == TrendInit /\ [][TrendNext]_vars

---------------------------------------------------------------------------
(* Properties of fetch_popular_videos and fetch_rising_videos *)

\* The video is the only one of its channel in the video table.
SoleInChannel(vid) ==
    \A w \in VideoIds \ {vid} : video[w].channel_id # video[vid].channel_id

\* The normalized score of a video that is alone in its channel: view_count
\* divided by itself, or the raw (zero) view_count when the average is not
\* positive.
SoleChannelScore(view_count) ==
    IF view_count > 0 THEN [num |-> 1, den |-> 1] ELSE [num |-> view_count, den |-> 1]

\* C5 as stated: for every returned video that is the only video of its
\* channel, normalized_view_score equals the video's raw view_count, in
\* fetch_popular_videos and in fetch_rising_videos.
C5_NormalizedEqualsViewCount ==
    /\ \A i \in DOMAIN trend.popular :
          SoleInChannel(trend.popular[i].video_id) =>
             FracEqual(trend.popular[i].normalized_view_score,
                       [num |-> trend.popular[i].view_count, den |-> 1])
    /\ \A i \in DOMAIN trend.rising :
          SoleInChannel(trend.rising[i].video_id) =>
             FracEqual(trend.rising[i].normalized_view_score,
                       [num |-> trend.rising[i].view_count, den |-> 1])

\* C5 amended: for every returned video that is the only video of its
\* channel, normalized_view_score is view_count / view_count = 1 when
\* view_count > 0 and is the raw view_count (0) otherwise, in both lists.
C5_SoleChannelNormalizedIsOne ==
    /\ \A i \in DOMAIN trend.popular :
          SoleInChannel(trend.popular[i].video_id) =>
             FracEqual(trend.popular[i].normalized_view_score,
                       SoleChannelScore(trend.popular[i].view_count))
    /\ \A i \in DOMAIN trend.rising :
          SoleInChannel(trend.rising[i].video_id) =>
             FracEqual(trend.rising[i].normalized_view_score,
                       SoleChannelScore(trend.rising[i].view_count))

\* Both lists were fetched and each holds a sole-channel video with more than
\* one view.
C5_Witness ==
    /\ \E i \in DOMAIN trend.popular :
          /\ SoleInChannel(trend.popular[i].video_id)
          /\ trend.popular[i].view_count > 1
    /\ \E i \in DOMAIN trend.rising :
          /\ SoleInChannel(trend.rising[i].video_id)
          /\ trend.rising[i].view_count > 1

\* The current view count of a video: that of its newest snapshot, or the
\* video row's when it has no snapshot.
CurrentViews(vid) ==
    IF snapshot[vid] = {} THEN video[vid].view_count
    ELSE (CHOOSE s \in snapshot[vid] :
             \A t \in snapshot[vid] : t.snapshot_date <= s.snapshot_date).view_count

\* The snapshots of a video that are at least velocity_days old.
PriorSnapshots(vid) ==
    {s \in snapshot[vid] : s.snapshot_date + request.velocity_days <= 0}

\* The earlier view count: that of the newest snapshot at least velocity_days
\* old, or 0 when there is none.
PriorViews(vid) ==
    IF PriorSnapshots(vid) = {} THEN 0
    ELSE (CHOOSE s \in PriorSnapshots(vid) :
             \A t \in PriorSnapshots(vid) : t.snapshot_date <= s.snapshot_date).view_count

Declined(vid) == CurrentViews(vid) < PriorViews(vid)

Flat(vid) == CurrentViews(vid) = PriorViews(vid)

\* C6: every view_velocity returned by fetch_rising_videos is
\* max(current - prev, 0) / velocity_days (SQL integer division) and is not
\* negative; a video whose count declined has velocity 0, and when it is
\* listed above a flat video the two have the same velocity and the later
\* sort keys of the declined one are not smaller.
C6_VelocityFlooredAtZero ==
    \A i \in DOMAIN trend.rising :
       LET r == trend.rising[i]
           diff == CurrentViews(r.video_id) - PriorViews(r.video_id)
       IN  /\ r.view_velocity = (IF diff > 0 THEN diff ELSE 0) \div request.velocity_days
           /\ r.view_velocity >= 0
           /\ Declined(r.video_id) => r.view_velocity = 0
           /\ \A j \in DOMAIN trend.rising :
                 (i < j /\ Declined(r.video_id) /\ Flat(trend.rising[j].video_id)) =>
                    /\ trend.rising[j].view_velocity = r.view_velocity
                    /\ ~RisingBefore(trend.rising[j], r)

\* The rising list holds a declined video (100 now, 150 before) above a flat
\* one, and a video with a positive velocity.
C6_Witness ==
    /\ \E i, j \in DOMAIN trend.rising :
          /\ i < j
          /\ Declined(trend.rising[i].video_id)
          /\ CurrentViews(trend.rising[i].video_id) = 100
          /\ PriorViews(trend.rising[i].video_id) = 150
          /\ trend.rising[i].view_velocity = 0
          /\ Flat(trend.rising[j].video_id)
    /\ \E k \in DOMAIN trend.rising : trend.rising[k].view_velocity > 0

\* The store holds the three candidates A (1000 views, 500 before), B (2000
\* views, 1900 before) and C (500 views, no snapshot) as v1, v2 and v3.
ThreeCandidates ==
    /\ video["v1"].view_count = 1000 /\ CurrentViews("v1") = 1000 /\ PriorViews("v1") = 500
    /\ video["v2"].view_count = 2000 /\ CurrentViews("v2") = 2000 /\ PriorViews("v2") = 1900
    /\ video["v3"].view_count = 500 /\ snapshot["v3"] = {}

Listed(vid) == \E i \in DOMAIN trend.rising : trend.rising[i].video_id = vid

RisingPos(vid) == CHOOSE i \in DOMAIN trend.rising : trend.rising[i].video_id = vid

\* vid a is listed whenever vid b is, and above it.
RanksAbove(a, b) == Listed(b) => (Listed(a) /\ RisingPos(a) < RisingPos(b))

\* C7 as stated: of the three candidates the rising sort ranks A above B, and
\* C, which has no prior snapshot, last of the three.
C7_NoPriorRanksLast ==
    (trend.rising_fetched /\ ThreeCandidates) =>
       /\ RanksAbove("v1", "v2")
       /\ RanksAbove("v1", "v3")
       /\ RanksAbove("v2", "v3")

\* C7 amended: of the three candidates the rising sort ranks A above B and C
\* above B: C's whole view count is its increase (500 / velocity_days, the
\* same velocity as A), so B ranks last of the three.
C7_SmallestIncreaseRanksLast ==
    (trend.rising_fetched /\ ThreeCandidates) =>
       /\ RanksAbove("v1", "v2")
       /\ RanksAbove("v3", "v2")
       /\ trend.rising # <<>> => (Listed("v1") \/ Listed("v3"))

\* The three candidates were all returned by the rising fetch.
C7_Witness ==
    /\ trend.rising_fetched
    /\ ThreeCandidates
    /\ Listed("v1") /\ Listed("v2") /\ Listed("v3")

---------------------------------------------------------------------------
(* TrendFeaturedUseCase._dedup_by_embedding *)

MaxItems == 3
MaxDedupCalls == 2

\* threshold: float = 0.9, as the fraction ThresholdNum / ThresholdDen.
ThresholdNum == 9
ThresholdDen == 10

\* The embedding of each candidate text (EmbeddingService.embed is
\* deterministic in the text).  cos(t1, t2) is exactly 0.9, cos(t1, t3) is
\* just below it, cos(t2, t3) above it, cos(t1, t4) is 1, t5 is the zero
\* vector and t6 points away from t1.
Embedding ==
    [t1 |-> <<1, 1, 0>>, t2 |-> <<4, 5, 3>>, t3 |-> <<4, 5, 4>>,
     t4 |-> <<2, 2, 0>>, t5 |-> <<0, 0, 0>>, t6 |-> <<-1, -1, 0>>]

Texts == DOMAIN Embedding

RECURSIVE Dot(_, _)
Dot(a, b) ==
    IF a = <<>> \/ b = <<>> THEN 0
    ELSE Head(a) * Head(b) + Dot(Tail(a), Tail(b))

\* cosine_similarity(a, b) > num / den, for 0 <= num and 0 < den.
CosineGreater(a, b, num, den) ==
    LET d == Dot(a, b)
        n == Dot(a, a) * Dot(b, b)
    IN  /\ n # 0
        /\ d > 0
        /\ den * den * d * d > num * num * n

\* cosine_similarity(a, b) >= num / den, for 0 < num and 0 < den, where
\* cosine_similarity is dot(a, b) / (|a| |b|) and 0 when a magnitude is 0.
CosineAtLeast(a, b, num, den) ==
    LET d == Dot(a, b)
        n == Dot(a, a) * Dot(b, b)
    IN  /\ n # 0
        /\ d > 0
        /\ den * den * d * d >= num * num * n

\* _item_text: title, category and summary joined; the candidates of the
\* model carry their whole text in the title.
ItemText(item) == item.title

RECURSIVE ItemTexts(_)
ItemTexts(items) ==
    IF items = <<>> THEN <<>> ELSE <<ItemText(Head(items))>> \o ItemTexts(Tail(items))

RECURSIVE Vectors(_)
Vectors(texts) ==
    IF texts = <<>> THEN <<>> ELSE <<Embedding[Head(texts)]>> \o Vectors(Tail(texts))

\* What embedding_service.embed(texts) may return: None, one vector per text,
\* a list that lacks the last vector, an empty list, or a list with a vector
\* too many.
EmbedAnswers(texts) ==
    { [kind |-> "none", embeddings |-> Null],
      [kind |-> "vectors", embeddings |-> Some(Vectors(texts))],
      [kind |-> "short", embeddings |-> Some(Prefix(Vectors(texts), Len(texts) - 1))],
      [kind |-> "empty", embeddings |-> Some(<<>>)],
      [kind |-> "long", embeddings |-> Some(Append(Vectors(texts), <<1, 0, 0>>))] }

\* zip(items, embeddings): pairs up to the shorter of the two.
RECURSIVE Zip(_, _)
Zip(items, embeddings) ==
    IF items = <<>> \/ embeddings = <<>> THEN <<>>
    ELSE <<<<Head(items), Head(embeddings)>>>> \o Zip(Tail(items), Tail(embeddings))

\* A comparison that lets a similarity of exactly the threshold pass.
IsDuplicateAboveThreshold(emb, kept_embeds) ==
    \E i \in DOMAIN kept_embeds :
       CosineGreater(emb, kept_embeds[i], ThresholdNum, ThresholdDen)

\* sim_max = max(cosine_similarity(emb, ke) for ke in kept_embeds);
\* sim_max >= threshold
IsDuplicate(emb, kept_embeds) ==
    \E i \in DOMAIN kept_embeds :
       CosineAtLeast(emb, kept_embeds[i], ThresholdNum, ThresholdDen)

\* A walk in which the later of two similar candidates takes the place of
\* the kept one.
RECURSIVE DedupWalkLastWins(_, _, _)
DedupWalkLastWins(pairs, kept, kept_embeds) ==
    IF pairs = <<>> THEN kept
    ELSE LET item == Head(pairs)[1]
             emb == Head(pairs)[2]
         IN  IF IsDuplicate(emb, kept_embeds)
             THEN LET k == CHOOSE i \in DOMAIN kept_embeds :
                              /\ IsDuplicate(emb, <<kept_embeds[i]>>)
                              /\ \A j \in 1..(i - 1) : ~IsDuplicate(emb, <<kept_embeds[j]>>)
                  IN  DedupWalkLastWins(Tail(pairs), [kept EXCEPT ![k] = item],
                                        [kept_embeds EXCEPT ![k] = emb])
             ELSE DedupWalkLastWins(Tail(pairs), Append(kept, item),
                                    Append(kept_embeds, emb))

\* for item, emb in zip(items, embeddings): the first pair is kept, a later
\* one is skipped when it is a duplicate of a kept one and kept otherwise.
RECURSIVE DedupWalk(_, _, _)
DedupWalk(pairs, kept, kept_embeds) ==
    IF pairs = <<>> THEN kept
    ELSE LET item == Head(pairs)[1]
             emb == Head(pairs)[2]
         IN  IF kept_embeds = <<>>
             THEN DedupWalk(Tail(pairs), Append(kept, item), Append(kept_embeds, emb))
             ELSE IF IsDuplicate(emb, kept_embeds)
             THEN DedupWalk(Tail(pairs), kept, kept_embeds)
             ELSE DedupWalk(Tail(pairs), Append(kept, item), Append(kept_embeds, emb))

\* _dedup_by_embedding(items) when embed answers with embeddings.
DedupByEmbedding(items, embeddings) ==
    IF items = <<>> THEN items
    ELSE IF IsNull(embeddings) THEN items
    ELSE DedupWalk(Zip(items, Val(embeddings)), <<>>, <<>>)

\* The list the next call receives: the candidates, then the last output.
DedupInput == IF dedup.calls = 0 THEN dedup.items ELSE dedup.output

\* One call of _dedup_by_embedding; the caller hands the output back in.
DedupCall ==
    /\ dedup.calls < MaxDedupCalls
    /\ \E answer \in EmbedAnswers(ItemTexts(DedupInput)) :
          dedup' = [dedup EXCEPT
                      !.calls = @ + 1,
                      !.input = DedupInput,
                      !.embeddings = answer.embeddings,
                      !.output = DedupByEmbedding(DedupInput, answer.embeddings),
                      !.answers = Append(@, answer.kind)]
    /\ UNCHANGED <<video, snapshot, video_score, request, surge, trend, usecaseVars>>

RECURSIVE CandidateLists(_)
CandidateLists(n) ==
    IF n = 0 THEN {<<>>}
    ELSE CandidateLists(n - 1) \cup
         {Append(l, [video_id |-> n, title |-> t]) :
             l \in {c \in CandidateLists(n - 1) : Len(c) = n - 1}, t \in Texts}

DedupInit ==
    /\ video = [vid \in VideoIds |-> TrendProfiles[3].v]
    /\ snapshot = [vid \in VideoIds |-> {}]
    /\ video_score = [vid \in VideoIds |-> Null]
    /\ request = [platform |-> Null, limit |-> 1, days |-> 3, velocity_days |-> 1]
    /\ surge = NoSurge
    /\ trend = NoTrend
    /\ UsecaseIdle
    /\ \E items \in CandidateLists(MaxItems) : dedup = [NoDedup EXCEPT !.items = items]

DedupNext == DedupCall

DedupSpec == DedupInit /\ [][DedupNext]_vars

---------------------------------------------------------------------------
(* Properties of _dedup_by_embedding *)

\* The last call got one vector per candidate.
OneVectorEach ==
    /\ dedup.calls > 0
    /\ dedup.answers[dedup.calls] = "vectors"

\* Candidate i of the last input is in the last output.
KeptAt(i) == \E k \in DOMAIN dedup.output : dedup.output[k] = dedup.input[i]

\* The similarity of candidates i and j of the last input is strictly below
\* the threshold.
BelowThreshold(i, j) ==
    ~CosineAtLeast(Embedding[dedup.input[i].title], Embedding[dedup.input[j].title],
                   ThresholdNum, ThresholdDen)

\* out lists elements of in, each once, in the order of in.
IsSubsequence(out, in) ==
    \E pos \in [DOMAIN out -> DOMAIN in] :
       /\ \A k \in DOMAIN out : out[k] = in[pos[k]]
       /\ \A k, l \in DOMAIN out : k < l => pos[k] < pos[l]

\* C8: with one vector per candidate, a candidate is kept iff its cosine
\* similarity to every kept earlier candidate is strictly below 0.9 (one at
\* exactly 0.9 is removed), the first candidate is always kept, and the
\* output is an order-preserving subsequence of the input.
C8_GreedyThresholdDedup ==
    OneVectorEach =>
       /\ IsSubsequence(dedup.output, dedup.input)
       /\ \A i \in DOMAIN dedup.input :
             KeptAt(i) <=> (\A j \in 1..(i - 1) : KeptAt(j) => BelowThreshold(i, j))
       /\ dedup.input # <<>> => (dedup.output # <<>> /\ dedup.output[1] = dedup.input[1])

\* The candidates t1, t2, t3 were deduplicated: t2, at exactly 0.9 from t1,
\* was removed and t3, just below 0.9 from t1, was kept.
C8_Witness ==
    /\ OneVectorEach
    /\ ItemTexts(dedup.input) = <<"t1", "t2", "t3">>
    /\ CosineAtLeast(Embedding["t2"], Embedding["t1"], ThresholdNum, ThresholdDen)
    /\ ~CosineGreater(Embedding["t2"], Embedding["t1"], ThresholdNum, ThresholdDen)
    /\ ItemTexts(dedup.output) = <<"t1", "t3">>

\* Both calls so far got one vector per candidate, so the last call ran on
\* the output of a dedup.
DedupOfOwnOutput ==
    /\ dedup.calls >= 2
    /\ dedup.answers[dedup.calls - 1] = "vectors"
    /\ dedup.answers[dedup.calls] = "vectors"

\* C9: dedup applied to its own output returns that output unchanged.
C9_DedupIdempotent ==
    DedupOfOwnOutput => dedup.output = dedup.input

\* The first call removed a candidate and the second call ran on what the
\* first one kept, two candidates.
C9_Witness ==
    /\ DedupOfOwnOutput
    /\ dedup.calls = 2
    /\ Len(dedup.input) < Len(dedup.items)
    /\ Len(dedup.input) >= 2

\* C10: when embed returns None or a list whose length differs from the
\* number of candidates, the call returns its input unchanged.
C10_FailsOpenOnMismatch ==
    (/\ dedup.calls > 0
     /\ \/ IsNull(dedup.embeddings)
        \/ Len(Val(dedup.embeddings)) # Len(dedup.input)) =>
       dedup.output = dedup.input

---------------------------------------------------------------------------
(* TrendFeaturedUseCase._rerank_by_query *)

\* The sign-preserving square of cosine_similarity(q, a) as the fraction
\* num / den with den > 0: 0 when a magnitude is 0.
CosineKey(q, a) ==
    LET d == Dot(q, a)
        n == Dot(q, q) * Dot(a, a)
    IN  IF n = 0 THEN [num |-> 0, den |-> 1]
        ELSE [num |-> IF d >= 0 THEN d * d ELSE -(d * d), den |-> n]

\* cosine_similarity(q, a) < cosine_similarity(q, b)
CosineLess(q, a, b) ==
    CosineKey(q, a).num * CosineKey(q, b).den < CosineKey(q, b).num * CosineKey(q, a).den

\* An insertion that puts a pair ahead of the pairs of equal similarity.
RECURSIVE InsertBySimUnstable(_, _, _)
InsertBySimUnstable(q, sorted, pair) ==
    IF sorted = <<>> THEN <<pair>>
    ELSE IF CosineLess(q, pair[2], Head(sorted)[2])
    THEN <<Head(sorted)>> \o InsertBySimUnstable(q, Tail(sorted), pair)
    ELSE <<pair>> \o sorted

\* scored.sort(key=lambda x: x[0], reverse=True), one element at a time: the
\* pair goes behind every pair whose similarity is not smaller (the sort is
\* stable).
RECURSIVE InsertBySim(_, _, _)
InsertBySim(q, sorted, pair) ==
    IF sorted = <<>> THEN <<pair>>
    ELSE IF CosineLess(q, Head(sorted)[2], pair[2])
    THEN <<pair>> \o sorted
    ELSE <<Head(sorted)>> \o InsertBySim(q, Tail(sorted), pair)

RECURSIVE SortBySim(_, _, _)
SortBySim(q, pairs, sorted) ==
    IF pairs = <<>> THEN sorted
    ELSE SortBySim(q, Tail(pairs), InsertBySim(q, sorted, Head(pairs)))

RECURSIVE ItemsOf(_)
ItemsOf(pairs) ==
    IF pairs = <<>> THEN <<>> ELSE <<Head(pairs)[1]>> \o ItemsOf(Tail(pairs))

\* embed(...) or []
OrEmpty(answer) == IF IsNull(answer) THEN <<>> ELSE Val(answer)

\* _rerank_by_query(query, items) when the two embed calls answer with
\* query_answer and item_answer.
RerankByQuery(items, query_answer, item_answer) ==
    IF items = <<>> THEN items
    ELSE IF OrEmpty(query_answer) = <<>> \/ OrEmpty(item_answer) = <<>> THEN items
    ELSE ItemsOf(SortBySim(OrEmpty(query_answer)[1],
                           Zip(items, OrEmpty(item_answer)), <<>>))

\* One call of _rerank_by_query.
RerankCall ==
    /\ ~rerank.called
    /\ \E qa \in EmbedAnswers(<<rerank.query>>) :
       \E ia \in EmbedAnswers(ItemTexts(rerank.items)) :
          rerank' = [rerank EXCEPT
                       !.called = TRUE,
                       !.query_embeds = qa.embeddings,
                       !.item_embeds = ia.embeddings,
                       !.output = RerankByQuery(rerank.items, qa.embeddings, ia.embeddings)]
    /\ UNCHANGED <<video, snapshot, video_score, request, surge, trend, dedup,
                   intent, featured, chat, features>>

RerankInit ==
    /\ video = [vid \in VideoIds |-> TrendProfiles[3].v]
    /\ snapshot = [vid \in VideoIds |-> {}]
    /\ video_score = [vid \in VideoIds |-> Null]
    /\ request = [platform |-> Null, limit |-> 1, days |-> 3, velocity_days |-> 1]
    /\ surge = NoSurge
    /\ trend = NoTrend
    /\ dedup = NoDedup
    /\ intent = NoIntent
    /\ featured = NoFeatured
    /\ chat = NoChat
    /\ features = NoFeatures
    /\ \E items \in CandidateLists(MaxItems) : \E q \in Texts :
          rerank = [NoRerank EXCEPT !.items = items, !.query = q]

RerankNext == RerankCall

RerankSpec == RerankInit /\ [][RerankNext]_vars

---------------------------------------------------------------------------
(* Properties of _rerank_by_query *)

\* The answer of an embed call for n texts signals an unavailable provider:
\* None, an empty list or a list shorter than n.
Unavailable(answer, n) == IsNull(answer) \/ Len(Val(answer)) < n

\* C11: when the query call or the candidate call of _rerank_by_query gets
\* None, an empty list or a list shorter than its texts, the call returns
\* every input candidate once, in input order.
C11_RerankFailsOpen ==
    (/\ rerank.called
     /\ \/ Unavailable(rerank.query_embeds, 1)
        \/ Unavailable(rerank.item_embeds, Len(rerank.items))) =>
       rerank.output = rerank.items

\* The query and every candidate got a vector.
RerankEmbedded ==
    /\ rerank.called
    /\ rerank.query_embeds = Some(<<Embedding[rerank.query]>>)
    /\ rerank.item_embeds = Some(Vectors(ItemTexts(rerank.items)))

\* cosine_similarity of candidate a to the query is below that of candidate b.
LessSimilar(a, b) ==
    CosineLess(Embedding[rerank.query], Embedding[a.title], Embedding[b.title])

\* C12: with a vector for the query and for every candidate, the output holds
\* the candidates in non-increasing similarity to the query, and candidates
\* of equal similarity in their input order.
C12_SortedBySimilarityStable ==
    RerankEmbedded =>
       /\ Len(rerank.output) = Len(rerank.items)
       /\ Range(rerank.output) = Range(rerank.items)
       /\ \A k, l \in DOMAIN rerank.output :
             k < l =>
                /\ ~LessSimilar(rerank.output[k], rerank.output[l])
                /\ ~LessSimilar(rerank.output[l], rerank.output[k])
                      => rerank.output[k].video_id < rerank.output[l].video_id

\* Three candidates were reranked: the last in input order came first and two
\* of equal similarity kept their input order.
C12_Witness ==
    /\ RerankEmbedded
    /\ Len(rerank.items) = 3
    /\ rerank.output[1] = rerank.items[3]
    /\ \E k \in 1..2 :
          /\ ~LessSimilar(rerank.output[k], rerank.output[k + 1])
          /\ ~LessSimilar(rerank.output[k + 1], rerank.output[k])
          /\ rerank.output[k].title # rerank.output[k + 1].title

---------------------------------------------------------------------------
(* chat_router: _classify_intent and the prototype cache _prototype_embeds *)

MaxPrototypes == 2
MaxCallers == 2
MaxIntentCalls == 3

\* A prototype table with a second label.
ShippedPrototypesTwoLabels == <<"trend", "general">>

\* INTENT_PROTOTYPES as shipped: one label.
ShippedPrototypes == <<"trend">>

\* The label _classify_intent falls back on.
DefaultIntent == "trend"

\* Labels a prototype table may hold.
IntentLabels == {"trend", "general", "other"}

\* The embedding of each prototype text (by label) and of each cleaned user
\* text; every vector has an integer length, so that cosines are fractions.
IntentEmbedding ==
    [trend |-> <<1, 3, 2, 1, 1>>, general |-> <<1, 4, 2, 2, 0>>,
     other |-> <<3, 4, 0, 0, 0>>,
     q1 |-> <<1, 0, 0, 0, 0>>, q2 |-> <<0, 1, 0, 0, 0>>, q3 |-> <<0, 0, 1, 0, 0>>,
     q4 |-> <<3, 4, 0, 0, 0>>, q5 |-> <<0, 0, 0, 0, 0>>]

QueryTexts == {"q1", "q2", "q3", "q4", "q5"}

\* The length of a vector whose squared length n is a perfect square.
ISqrt(n) == CHOOSE r \in 0..n : r * r = n

\* cosine_similarity(a, b) as the fraction num / den with den > 0.
CosineFrac(a, b) ==
    LET n == ISqrt(Dot(a, a)) * ISqrt(Dot(b, b))
    IN  IF n = 0 THEN [num |-> 0, den |-> 1] ELSE [num |-> Dot(a, b), den |-> n]

\* a - b < num / den, for fractions a and b.
DiffLess(a, b, num, den) ==
    den * (a.num * b.den - b.num * a.den) < num * a.den * b.den

\* The margin below which a classification is ambiguous: 0.05.
MarginNum == 1
MarginDen == 20

RECURSIVE IntentVectors(_)
IntentVectors(texts) ==
    IF texts = <<>> THEN <<>>
    ELSE <<IntentEmbedding[Head(texts)]>> \o IntentVectors(Tail(texts))

\* What embedding_service.embed(texts) may return in the chat router.
IntentEmbedAnswers(texts) ==
    { Null,
      Some(IntentVectors(texts)),
      Some(Prefix(IntentVectors(texts), Len(texts) - 1)),
      Some(<<>>) }

\* Only None counts as a failed embed call.
EmbedFailedOnNone(embeds) == IsNull(embeds)

\* if not embeds: return None
EmbedFailed(embeds) == OrEmpty(embeds) = <<>>

\* scored.sort(key=lambda x: x[1], reverse=True) over (label, score) pairs,
\* one element at a time (stable).
RECURSIVE InsertByScore(_, _)
InsertByScore(sorted, pair) ==
    IF sorted = <<>> THEN <<pair>>
    ELSE IF FracGreater(pair[2], Head(sorted)[2]) THEN <<pair>> \o sorted
    ELSE <<Head(sorted)>> \o InsertByScore(Tail(sorted), pair)

\* scored: (label, cosine_similarity(q_vec, proto_vec)) for each cache entry
\* in dict order, then sorted by descending score.
RECURSIVE ScoredSorted(_, _, _)
ScoredSorted(q_vec, cache, sorted) ==
    IF cache = <<>> THEN sorted
    ELSE ScoredSorted(q_vec, Tail(cache),
                      InsertByScore(sorted, <<Head(cache)[1],
                                              CosineFrac(q_vec, Head(cache)[2])>>))

\* A pick that returns the top label whatever the margin.
PickLabelNominalTop(scored) ==
    IF scored = <<>> THEN Null ELSE Some(scored[1][1])

\* Lines 99-106: no label for an empty list or when the top two scores
\* differ by less than 0.05, else the top label.
PickLabel(scored) ==
    IF scored = <<>> THEN Null
    ELSE IF Len(scored) > 1 /\ DiffLess(scored[1][2], scored[2][2], MarginNum, MarginDen)
    THEN Null
    ELSE Some(scored[1][1])

\* _classify_intent: intent_by_embed if intent_by_embed else "trend"
ClassifyIntent(by_embed) == IF IsNull(by_embed) THEN DefaultIntent ELSE Val(by_embed)

\* _prototype_embeds[label] = emb: dict assignment (insertion order kept, an
\* existing key keeps its place).
RECURSIVE DictSet(_, _, _)
DictSet(cache, label, emb) ==
    IF cache = <<>> THEN <<<<label, emb>>>>
    ELSE IF Head(cache)[1] = label THEN <<<<label, emb>>>> \o Tail(cache)
    ELSE <<Head(cache)>> \o DictSet(Tail(cache), label, emb)

RECURSIVE DictKeys(_)
DictKeys(cache) ==
    IF cache = <<>> THEN <<>> ELSE <<Head(cache)[1]>> \o DictKeys(Tail(cache))

\* A caller at rest.
IdleCaller ==
    [pc |-> "idle", text |-> "", pending |-> <<>>, q_vec |-> <<>>,
     saw_cache |-> FALSE, embedded_prototypes |-> FALSE, scored |-> FALSE,
     scored_keys |-> <<>>, by_embed |-> Null, label |-> ""]

\* A call returns by_embed.
Returned(c, by_embed) ==
    [intent.caller[c] EXCEPT !.pc = "idle", !.by_embed = by_embed,
                             !.label = ClassifyIntent(by_embed)]

\* The call starts (lines 78-82): no text or no client returns None; else the
\* cache is looked at.
IntentBegin(c) ==
    /\ c \in intent.active
    /\ intent.caller[c].pc = "idle"
    /\ intent.calls < MaxIntentCalls
    /\ \E text \in intent.texts :
          LET fresh == [IdleCaller EXCEPT !.text = text,
                                          !.saw_cache = intent.cache # <<>>]
          IN  intent' = [intent EXCEPT
                 !.calls = @ + 1,
                 !.caller[c] =
                    IF text = "" \/ ~intent.client
                    THEN [fresh EXCEPT !.label = DefaultIntent]
                    ELSE IF intent.cache = <<>>
                    THEN [fresh EXCEPT !.pc = "embed_prototypes"]
                    ELSE [fresh EXCEPT !.pc = "embed_query"]]
    /\ UNCHANGED <<video, snapshot, video_score, request, surge, trend, dedup,
                   rerank, featured, chat, features>>

\* Lines 83-85: embed the prototype texts.
EmbedPrototypes(c) ==
    /\ intent.caller[c].pc = "embed_prototypes"
    /\ \E embeds \in IntentEmbedAnswers(intent.prototypes) :
          intent' = [intent EXCEPT
             !.prototype_embeds = @ + 1,
             !.caller[c] =
                IF EmbedFailed(embeds) THEN Returned(c, Null)
                ELSE [@ EXCEPT !.pc = "store", !.embedded_prototypes = TRUE,
                               !.pending = Zip(intent.prototypes, OrEmpty(embeds))]]
    /\ UNCHANGED <<video, snapshot, video_score, request, surge, trend, dedup,
                   rerank, featured, chat, features>>

\* Lines 86-87: one turn of the loop that fills the cache.
StorePrototype(c) ==
    /\ intent.caller[c].pc = "store"
    /\ intent' =
          IF intent.caller[c].pending = <<>>
          THEN [intent EXCEPT !.caller[c].pc = "embed_query"]
          ELSE [intent EXCEPT
                  !.cache = DictSet(@, Head(intent.caller[c].pending)[1],
                                    Head(intent.caller[c].pending)[2]),
                  !.caller[c].pending = Tail(@),
                  !.caller[c].pc = IF Tail(intent.caller[c].pending) = <<>>
                                   THEN "embed_query" ELSE "store"]
    /\ UNCHANGED <<video, snapshot, video_score, request, surge, trend, dedup,
                   rerank, featured, chat, features>>

\* Lines 89-92: embed the text.
EmbedQuery(c) ==
    /\ intent.caller[c].pc = "embed_query"
    /\ \E embeds \in IntentEmbedAnswers(<<intent.caller[c].text>>) :
          intent' = [intent EXCEPT
             !.caller[c] =
                IF EmbedFailed(embeds) THEN Returned(c, Null)
                ELSE [@ EXCEPT !.pc = "score", !.q_vec = OrEmpty(embeds)[1]]]
    /\ UNCHANGED <<video, snapshot, video_score, request, surge, trend, dedup,
                   rerank, featured, chat, features>>

\* Lines 94-106: score against the cache and pick.
ScorePrototypes(c) ==
    /\ intent.caller[c].pc = "score"
    /\ intent' = [intent EXCEPT
          !.caller[c] =
             [Returned(c, PickLabel(ScoredSorted(intent.caller[c].q_vec, intent.cache, <<>>)))
                EXCEPT !.scored = TRUE, !.scored_keys = DictKeys(intent.cache)]]
    /\ UNCHANGED <<video, snapshot, video_score, request, surge, trend, dedup,
                   rerank, featured, chat, features>>

IntentNext ==
    \E c \in 1..MaxCallers :
       \/ IntentBegin(c)
       \/ EmbedPrototypes(c)
       \/ StorePrototype(c)
       \/ EmbedQuery(c)
       \/ ScorePrototypes(c)

\* Prototype tables: sequences of distinct labels.
PrototypeTables ==
    {p \in UNION {[1..n -> IntentLabels] : n \in 1..MaxPrototypes} :
        \A i, j \in DOMAIN p : i # j => p[i] # p[j]}

RestOfEngineIdle ==
    /\ video = [vid \in VideoIds |-> TrendProfiles[3].v]
    /\ snapshot = [vid \in VideoIds |-> {}]
    /\ video_score = [vid \in VideoIds |-> Null]
    /\ request = [platform |-> Null, limit |-> 1, days |-> 3, velocity_days |-> 1]
    /\ surge = NoSurge
    /\ trend = NoTrend
    /\ dedup = NoDedup

\* One caller at a time, any prototype table, any text.
IntentInit ==
    /\ RestOfEngineIdle
    /\ rerank = NoRerank /\ featured = NoFeatured /\ chat = NoChat /\ features = NoFeatures
    /\ \E protos \in PrototypeTables : \E client \in BOOLEAN :
          intent = [prototypes |-> protos, client |-> client,
                    texts |-> QueryTexts \cup {""}, cache |-> <<>>, calls |-> 0,
                    prototype_embeds |-> 0, active |-> {1},
                    caller |-> [c \in 1..MaxCallers |-> IdleCaller]]

IntentSpec == IntentInit /\ [][IntentNext]_vars

\* The shipped module: the shipped prototype table, several callers whose
\* steps interleave.
CacheInit ==
    /\ RestOfEngineIdle
    /\ rerank = NoRerank /\ featured = NoFeatured /\ chat = NoChat /\ features = NoFeatures
    /\ \E texts \in {{"q1"}, {"q1", "q4"}, {"q5", ""}} :
          intent = [prototypes |-> ShippedPrototypes, client |-> TRUE,
                    texts |-> texts, cache |-> <<>>, calls |-> 0,
                    prototype_embeds |-> 0, active |-> 1..MaxCallers,
                    caller |-> [c \in 1..MaxCallers |-> IdleCaller]]

CacheSpec == CacheInit /\ [][IntentNext]_vars

---------------------------------------------------------------------------
(* Properties of the intent classification and its prototype cache *)

\* The score of prototype label l for the text of caller c.
ProtoScore(c, l) ==
    CosineFrac(IntentEmbedding[intent.caller[c].text], IntentEmbedding[l])

\* Label l has the highest score among the labels caller c scored.
TopLabel(c, l) ==
    \A m \in Range(intent.caller[c].scored_keys) :
       ~FracGreater(ProtoScore(c, m), ProtoScore(c, l))

\* The score of l exceeds every other scored label's by at least 0.05.
ClearMargin(c, l) ==
    \A m \in Range(intent.caller[c].scored_keys) \ {l} :
       ~DiffLess(ProtoScore(c, l), ProtoScore(c, m), MarginNum, MarginDen)

\* C13: a call that scored the prototypes returns a label only if it is the
\* highest-scoring one and exceeds the second-best score by at least 0.05 (or
\* is the single prototype), and returns it then; when the top two scores
\* differ by less than 0.05 it returns no label and _classify_intent yields
\* the default label.
C13_AmbiguousFallsBack ==
    \A c \in 1..MaxCallers :
       intent.caller[c].scored =>
          LET keys == Range(intent.caller[c].scored_keys)
              by_embed == intent.caller[c].by_embed
          IN  /\ \A l \in IntentLabels :
                    by_embed = Some(l) <=>
                       (l \in keys /\ TopLabel(c, l)
                          /\ (Cardinality(keys) = 1 \/ ClearMargin(c, l)))
              /\ (Cardinality(keys) > 1 /\ \A l \in keys : TopLabel(c, l) => ~ClearMargin(c, l))
                    => (IsNull(by_embed) /\ intent.caller[c].label = DefaultIntent)

\* Two prototypes were scored, one strictly ahead of the other by less than
\* 0.05, and the call fell back on the default label although the other label
\* had the top score.
C13_Witness ==
    \E c \in 1..MaxCallers :
       /\ intent.caller[c].scored
       /\ Len(intent.caller[c].scored_keys) = 2
       /\ \E l \in Range(intent.caller[c].scored_keys) :
             /\ l # DefaultIntent
             /\ TopLabel(c, l)
             /\ ~TopLabel(c, DefaultIntent)
             /\ ~ClearMargin(c, l)
       /\ IsNull(intent.caller[c].by_embed)
       /\ intent.caller[c].label = DefaultIntent

\* The cache holds exactly one embedding per prototype label.
CacheComplete ==
    /\ DictKeys(intent.cache) = intent.prototypes
    /\ \A i \in DOMAIN intent.cache :
          intent.cache[i][2] = IntentEmbedding[intent.cache[i][1]]

CacheConverges ==
    /\ intent.cache # <<>> => CacheComplete
    /\ \A c \in 1..MaxCallers :
          /\ intent.caller[c].pc = "score" => CacheComplete
          /\ intent.caller[c].scored =>
                Range(intent.caller[c].scored_keys) = Range(intent.prototypes)
          /\ intent.caller[c].saw_cache =>
                /\ ~intent.caller[c].embedded_prototypes
                /\ intent.caller[c].pc \notin {"embed_prototypes", "store"}
          /\ (intent.cache = <<>> /\ intent.caller[c].pc # "idle") =>
                intent.caller[c].pc \in {"embed_prototypes", "store"}

\* A call whose prototype embedding fails returns without touching the cache.
FailedPopulationKeepsCache ==
    \A c \in 1..MaxCallers :
       (intent.caller[c].pc = "embed_prototypes" /\ intent'.caller[c].pc = "idle")
          => intent'.cache = intent.cache

\* C14: under every interleaving of the callers' steps no call scores against
\* a cache that lacks a prototype label, a populated cache holds exactly one
\* embedding per label, a call that finds the cache populated does not embed
\* the prototype texts again, and a failed population leaves the cache as it
\* was, so that a call finding it empty populates it.
C14_CacheConverges ==
    [](CacheConverges) /\ [][FailedPopulationKeepsCache]_vars

\* Two callers both found the cache empty and both embedded the prototypes;
\* the cache holds the one embedding and a caller has scored against it.
C14_Witness ==
    /\ intent.prototypes = ShippedPrototypes
    /\ \E c, d \in 1..MaxCallers :
          /\ c # d
          /\ intent.caller[c].embedded_prototypes
          /\ intent.caller[d].embedded_prototypes
          /\ intent.caller[c].scored
    /\ intent.prototype_embeds >= 3
    /\ CacheComplete

---------------------------------------------------------------------------
(* TrendFeaturedUseCase.get_featured and _enforce_diversity *)

MaxFeaturedLimit == 2
MaxEngineCalls == 2

\* The LIMIT of fetch_hot_category_trends in get_featured.
HotCategoryLimit == 5

\* limit=limit_popular * 2, limit=limit_rising * 2: the store is asked for the
\* bare limit.
AskedLimitSingle(limit) == limit

\* limit=limit_popular * 2, limit=limit_rising * 2
AskedLimit(limit) == limit * 2

\* Python truthiness of an optional string.
Truthy(o) == ~IsNull(o) /\ Val(o) # ""

\* fetch_hot_category_trends(platform, limit): the latest row per category of
\* the platform, in rank order (the table holds them in that order).
RECURSIVE FilterPlatform(_, _)
FilterPlatform(rows, platform) ==
    IF rows = <<>> THEN <<>>
    ELSE IF IsNull(platform) \/ Head(rows).platform = Val(platform)
         THEN <<Head(rows)>> \o FilterPlatform(Tail(rows), platform)
         ELSE FilterPlatform(Tail(rows), platform)

FetchHotCategoryTrends(table, platform, limit) ==
    Prefix(FilterPlatform(table, platform), limit)

\* _summarize_trends: a fixed sentence without categories, otherwise a
\* sentence naming the first categories.
SummarizeTrends(categories) ==
    IF categories = <<>> THEN "insufficient"
    ELSE "top categories"

\* The branch of _enforce_diversity's loop an item takes; category is an
\* optional column, channel_id a string that may be empty.
SharesWithLast(result, item) ==
    /\ result # <<>>
    /\ \/ Truthy(item.category) /\ item.category = result[Len(result)].category
       \/ item.channel_id # "" /\ item.channel_id = result[Len(result)].channel_id

\* list.insert(len(result), item)
InsertAt(result, index, item) ==
    SubSeq(result, 1, index) \o <<item>> \o SubSeq(result, index + 1, Len(result))

\* _enforce_diversity: both branches put the item at the end of result.
RECURSIVE EnforceDiversityLoop(_, _)
EnforceDiversityLoop(items, result) ==
    IF items = <<>> THEN result
    ELSE IF SharesWithLast(result, Head(items))
         THEN EnforceDiversityLoop(Tail(items), Append(result, Head(items)))
         ELSE EnforceDiversityLoop(Tail(items),
                                   InsertAt(result, Len(result), Head(items)))

\* The loop with the sharing branch holding the item back until the end.
RECURSIVE DeferLoop(_, _, _)
DeferLoop(items, result, deferred) ==
    IF items = <<>> THEN result \o deferred
    ELSE IF SharesWithLast(result, Head(items))
         THEN DeferLoop(Tail(items), result, Append(deferred, Head(items)))
         ELSE DeferLoop(Tail(items), Append(result, Head(items)), deferred)

\* _enforce_diversity as its docstring describes it.
EnforceDiversityDeferring(items) ==
    IF items = <<>> THEN items ELSE DeferLoop(items, <<>>, <<>>)

\* _enforce_diversity(items)
EnforceDiversity(items) ==
    IF items = <<>> THEN items ELSE EnforceDiversityLoop(items, <<>>)

\* [r for r in rising if r not in popular]
RECURSIVE NotIn(_, _)
NotIn(rising, popular) ==
    IF rising = <<>> THEN <<>>
    ELSE IF \E i \in DOMAIN popular : popular[i] = Head(rising)
         THEN NotIn(Tail(rising), popular)
         ELSE <<Head(rising)>> \o NotIn(Tail(rising), popular)

\* What the embedding provider does during one call of get_featured.
ProviderModes == {"vectors", "none", "short", "empty"}

\* embed(texts) of a provider in the given mode.
EmbedIn(mode, texts) ==
    (CHOOSE a \in EmbedAnswers(texts) : a.kind = mode).embeddings

\* The dict get_featured returns for the lists the store delivered.
FeaturedResult(popular_rows, rising_rows, categories, mode) ==
    LET popular == DedupByEmbedding(popular_rows,
                                    EmbedIn(mode, ItemTexts(popular_rows)))
        rising == DedupByEmbedding(rising_rows,
                                   EmbedIn(mode, ItemTexts(rising_rows)))
        combined == popular \o NotIn(rising, popular)
        recommended ==
            IF Truthy(featured.query)
            THEN EnforceDiversity(
                   Prefix(RerankByQuery(combined,
                                        EmbedIn(mode, <<Val(featured.query)>>),
                                        EmbedIn(mode, ItemTexts(combined))),
                          Max2(featured.limit_popular, featured.limit_rising)))
            ELSE <<>>
    IN  [popular |-> EnforceDiversity(Prefix(popular, featured.limit_popular)),
         rising |-> EnforceDiversity(Prefix(rising, featured.limit_rising)),
         categories |-> categories,
         recommended |-> recommended,
         summary |-> SummarizeTrends(categories)]

\* One call of get_featured(limit_popular, limit_rising, velocity_days,
\* platform, query).
GetFeatured ==
    /\ ~featured.called
    /\ \E popular_rows \in PopularRowSeqs(request.platform,
                                          AskedLimit(featured.limit_popular)) :
       \E rising_rows \in RisingRowSeqs(request.platform,
                                        AskedLimit(featured.limit_rising),
                                        request.velocity_days) :
       \E mode \in ProviderModes :
          featured' = [featured EXCEPT
                         !.called = TRUE,
                         !.asked_popular = AskedLimit(featured.limit_popular),
                         !.asked_rising = AskedLimit(featured.limit_rising),
                         !.result = FeaturedResult(
                                      popular_rows, rising_rows,
                                      FetchHotCategoryTrends(featured.category_trend,
                                                             request.platform,
                                                             HotCategoryLimit),
                                      mode)]
    /\ UNCHANGED <<video, snapshot, video_score, request, surge, trend, dedup,
                   rerank, intent, chat, features>>

\* The stores of the engine specification: three videos out of the surge
\* profiles, with titles of which the first two embed alike.
EngineStores == {<<1, 3, 4>>, <<3, 4, 5>>}

EngineTitles == [v1 |-> "t1", v2 |-> "t4", v3 |-> "t3"]

CategoryTable ==
    <<[category |-> "music", platform |-> "youtube", rank |-> 1]>>

\* Requests of the engine specification; no video is on the platform vimeo
\* and none is dated today, the only date of a one-day window.
EngineRequests ==
    [platform : {Null, Some("youtube"), Some("vimeo")},
     limit : {1},
     days : {1, 3},
     velocity_days : {1}]

FeaturedArguments ==
    {[NoFeatured EXCEPT !.limit_popular = lp, !.limit_rising = lr,
                        !.query = q, !.category_trend = CategoryTable] :
        lp \in 1..MaxFeaturedLimit, lr \in 1..MaxFeaturedLimit,
        q \in {Null, Some(""), Some("t1")}}

EngineInit ==
    /\ \E prof \in EngineStores :
          /\ video = [vid \in VideoIds |->
                        [SurgeProfiles[prof[CHOOSE i \in DOMAIN VideoSeq : VideoSeq[i] = vid]].v
                           EXCEPT !.title = EngineTitles[vid]]]
          /\ snapshot = [vid \in VideoIds |->
                        SurgeProfiles[prof[CHOOSE i \in DOMAIN VideoSeq : VideoSeq[i] = vid]].s]
    /\ video_score \in SurgeScoreTables
    /\ request \in EngineRequests
    /\ surge = NoSurge
    /\ trend = NoTrend
    /\ dedup = NoDedup
    /\ rerank = NoRerank
    /\ intent = NoIntent
    /\ featured \in FeaturedArguments
    /\ chat = NoChat
    /\ features = NoFeatures

\* The number of calls made so far.
EngineCalls ==
    surge.calls + (IF featured.called THEN 1 ELSE 0)
                + (IF trend.popular_fetched THEN 1 ELSE 0)
                + (IF trend.rising_fetched THEN 1 ELSE 0)

\* Any sequence of at most MaxEngineCalls calls.
EngineNext ==
    \/ EngineCalls < MaxEngineCalls /\ FetchSurgeVideos
    \/ EngineCalls < MaxEngineCalls /\ GetFeatured
    \/ EngineCalls < MaxEngineCalls /\ FetchPopularVideos
    \/ EngineCalls < MaxEngineCalls /\ FetchRisingVideos

EngineSpec == EngineInit /\ [][EngineNext]_vars

---------------------------------------------------------------------------
(* Properties of get_featured *)

\* C15: get_featured with positive limits asks the store for
\* 2 * limit_popular popular and 2 * limit_rising rising videos, returns at
\* most limit_popular popular, at most limit_rising rising and at most
\* max(limit_popular, limit_rising) recommended videos, and recommends
\* nothing when no query is given.
C15_FeaturedBounds ==
    featured.called =>
        /\ featured.asked_popular = 2 * featured.limit_popular
        /\ featured.asked_rising = 2 * featured.limit_rising
        /\ Len(featured.result.popular) <= featured.limit_popular
        /\ Len(featured.result.rising) <= featured.limit_rising
        /\ Len(featured.result.recommended)
              <= Max2(featured.limit_popular, featured.limit_rising)
        /\ (IsNull(featured.query) \/ featured.query = Some("")
              => featured.result.recommended = <<>>)

\* A call whose popular slice cut a longer list, and whose query produced as
\* many recommendations as the larger limit allows.
C15_Witness ==
    /\ featured.called
    /\ featured.limit_popular = 1
    /\ featured.limit_rising = 2
    /\ Len(featured.result.popular) = 1
    /\ Len(featured.result.rising) = 2
    /\ Len(featured.result.recommended) = 2

\* No video passes the platform filter of the request.
NoVideoOnPlatform ==
    /\ ~IsNull(request.platform)
    /\ \A vid \in VideoIds : video[vid].platform # Val(request.platform)

\* No video passes the date window and the platform filter of the request.
NoSurgeCandidate ==
    \/ NoVideoOnPlatform
    \/ \A vid \in VideoIds :
          LET v == video[vid]
              d == IF IsNull(v.published_at) THEN v.crawled_at
                   ELSE PublishedDate(Val(v.published_at))
          IN  d < ToDate - (request.days - 1) \/ d > ToDate

FeaturedKeys == {"popular", "rising", "categories", "recommended", "summary"}

\* get_featured over a store without a matching video has returned the five
\* keys with empty popular, rising and recommended lists.
EmptyFeatured ==
    (featured.called /\ NoVideoOnPlatform) =>
        /\ DOMAIN featured.result = FeaturedKeys
        /\ featured.result.popular = <<>>
        /\ featured.result.rising = <<>>
        /\ featured.result.recommended = <<>>

\* A call of fetch_surge_videos over a store without a candidate returns an
\* empty list, raises nothing and leaves video_score as it was.
EmptySurge ==
    (surge'.calls = surge.calls + 1 /\ NoSurgeCandidate) =>
        /\ ~surge'.raised
        /\ surge'.result = <<>>
        /\ video_score' = video_score

\* C16: when no video matches the window or the platform filter (an unknown
\* platform included), get_featured raises nothing and returns the five keys
\* with empty popular, rising and recommended lists, and fetch_surge_videos
\* raises nothing, returns an empty list and writes no score.
C16_EmptyBuckets == [](EmptyFeatured) /\ [][EmptySurge]_vars

\* Both calls were made for an unknown platform, the recommendation asked
\* for with a query, over a store that holds score rows.
C16_Witness ==
    /\ request.platform = Some("vimeo")
    /\ featured.called
    /\ Truthy(featured.query)
    /\ surge.calls = 1
    /\ surge.result = <<>>
    /\ \E vid \in VideoIds : ~IsNull(video_score[vid])

---------------------------------------------------------------------------
(* _enforce_diversity on its own *)

DiversityCategories == {Null, Some("music"), Some("game")}

DiversityChannels == {"", "c1", "c2"}

\* The lists handed to _enforce_diversity: up to n items, each with an
\* optional category and a channel_id that may be empty.
DiversityLists(n) ==
    UNION {[1..k -> [category : DiversityCategories, channel_id : DiversityChannels]]
             : k \in 0..n}

\* One call of _enforce_diversity(items).
ApplyDiversity ==
    /\ ~featured.diversified
    /\ featured' = [featured EXCEPT !.diversified = TRUE,
                                    !.diverse = EnforceDiversity(featured.items)]
    /\ UNCHANGED <<video, snapshot, video_score, request, surge, trend, dedup,
                   rerank, intent, chat, features>>

DiversityInit ==
    /\ video = [vid \in VideoIds |-> SurgeProfiles[1].v]
    /\ snapshot = [vid \in VideoIds |-> {}]
    /\ video_score = [vid \in VideoIds |-> Null]
    /\ request = [platform |-> Null, limit |-> 1, days |-> 3, velocity_days |-> 1]
    /\ surge = NoSurge
    /\ trend = NoTrend
    /\ dedup = NoDedup
    /\ rerank = NoRerank
    /\ intent = NoIntent
    /\ \E items \in DiversityLists(MaxItems) :
          featured = [NoFeatured EXCEPT !.items = items]
    /\ chat = NoChat
    /\ features = NoFeatures

DiversityNext == ApplyDiversity

DiversitySpec == DiversityInit /\ [][DiversityNext]_vars

\* Two items share a non-empty category or a non-empty channel_id.
Shares(a, b) ==
    \/ Truthy(a.category) /\ a.category = b.category
    \/ a.channel_id # "" /\ a.channel_id = b.channel_id

NoAdjacentShare(items) ==
    \A i \in 1..(Len(items) - 1) : ~Shares(items[i], items[i + 1])

\* Some reordering of the list has no two adjacent items that share.
Separable(items) ==
    \E o \in Orderings(DOMAIN items) :
        NoAdjacentShare([i \in DOMAIN items |-> items[o[i]]])

\* C17 as claimed: the diversity pass defers an item that shares its category
\* or channel_id with the preceding output item, so that the output has no
\* two adjacent items with the same non-empty category or channel_id whenever
\* a reordering of the input without such a pair exists.
C17_NoAdjacentShare ==
    (featured.diversified /\ Separable(featured.items))
        => NoAdjacentShare(featured.diverse)

---------------------------------------------------------------------------
(* chat_stream and TrendChatUseCase.answer_with_trends *)

MaxChunks == 2

\* "트렌드 데이터가 부족해요. 나중에 다시 시도해 주세요."
InsufficientMessage == "not enough trend data"

Event(type, text) == [type |-> type, text |-> text]

\* What iterating the stream yields: a ChatCompletionChunk with or without
\* choices and with a content delta, or, when the stream is a str, a
\* one-character str, which has no attribute choices.
Chunk(has_choices, content) ==
    [is_chunk |-> TRUE, choices |-> has_choices, content |-> content]

Character == [is_chunk |-> FALSE, choices |-> FALSE, content |-> ""]

\* Iterating a str: one element per character (two stand for all of them).
Characters(message) == IF message = "" THEN <<>> ELSE <<Character, Character>>

\* The chunk sequences the text-generation service may stream.
ChunkStreams ==
    UNION {[1..k -> {Chunk(FALSE, ""), Chunk(TRUE, ""), Chunk(TRUE, "token")}]
             : k \in 0..MaxChunks}

\* answer_with_trends for the trends get_featured returned: with both buckets
\* empty it returns the message and [] and never reaches the text-generation
\* call; otherwise that call raises or returns the stream it is given.
AnswerWithTrends(trends, generated) ==
    IF trends.popular = <<>> /\ trends.rising = <<>>
    THEN [raised |-> FALSE, stream |-> Characters(InsufficientMessage),
          generation_calls |-> 0]
    ELSE IF generated.raised
    THEN [raised |-> TRUE, stream |-> <<>>, generation_calls |-> 1]
    ELSE [raised |-> FALSE, stream |-> generated.chunks, generation_calls |-> 1]

\* client.chat.completions.create(model, messages, stream=True) of the
\* branch for other intents.
PlainCompletion(generated) ==
    IF generated.raised
    THEN [raised |-> TRUE, stream |-> <<>>, generation_calls |-> 1]
    ELSE [raised |-> FALSE, stream |-> generated.chunks, generation_calls |-> 1]

\* The optional conversationId event that opens the stream.
Opening == IF chat.conversation_id THEN <<Event("conversationId", "")>> ELSE <<>>

\* event_generator up to its loop: the conversationId event, the stream of
\* the trend use case with the videos event, or the stream of a plain
\* completion; an exception ends the generator with an error event.
ChatStart ==
    /\ chat.pc = "idle"
    /\ \E generated \in [raised : {TRUE}, chunks : {<<>>}]
                        \cup [raised : {FALSE}, chunks : ChunkStreams] :
          LET answer == IF chat.intent = "trend"
                        THEN AnswerWithTrends(chat.trends, generated)
                        ELSE PlainCompletion(generated)
              videos == IF chat.intent = "trend"
                        THEN <<Event("videos", "")>> ELSE <<>>
          IN  chat' = [chat EXCEPT
                  !.pc = IF answer.raised THEN "closed" ELSE "loop",
                  !.stream = answer.stream,
                  !.generation_calls = answer.generation_calls,
                  !.events = IF answer.raised
                             THEN Opening \o <<Event("error", "")>>
                             ELSE Opening \o videos]
    /\ UNCHANGED <<video, snapshot, video_score, request, surge, trend, dedup,
                   rerank, intent, featured, features>>

\* One iteration of `for chunk in stream` whose consequences are those of
\* ChatChunk except that a disconnected client is noted and the loop goes on.
ChatChunkWithoutBreak ==
    /\ chat.pc = "loop"
    /\ chat.stream # <<>>
    /\ \E outcome \in {"chunk", "gone", "failed"} :
          LET chunk == Head(chat.stream)
          IN  chat' =
                IF (outcome = "failed" /\ chunk.is_chunk) \/ ~chunk.is_chunk
                THEN [chat EXCEPT !.pc = "closed",
                                  !.events = Append(@, Event("error", ""))]
                ELSE [chat EXCEPT
                        !.stream = Tail(@),
                        !.disconnected = @ \/ outcome = "gone",
                        !.events = IF chunk.choices /\ chunk.content # ""
                                   THEN Append(@, Event("content", chunk.content))
                                   ELSE @]
    /\ UNCHANGED <<video, snapshot, video_score, request, surge, trend, dedup,
                   rerank, intent, featured, features>>

\* One iteration of `for chunk in stream`: fetching the next chunk from the
\* text-generation service may raise, which ends the generator with an error
\* event; a disconnected client breaks the loop, which falls through to the
\* [DONE] event; chunk.choices raises on an element that is not a chunk; a
\* non-empty delta is sent as content.
ChatChunk ==
    /\ chat.pc = "loop"
    /\ chat.stream # <<>>
    /\ \E outcome \in {"chunk", "gone", "failed"} :
          LET chunk == Head(chat.stream)
          IN  chat' =
                IF outcome = "failed" /\ chunk.is_chunk
                THEN [chat EXCEPT !.pc = "closed",
                                  !.events = Append(@, Event("error", ""))]
                ELSE IF outcome = "gone"
                THEN [chat EXCEPT !.pc = "closed", !.disconnected = TRUE,
                                  !.events = Append(@, Event("data", "[DONE]"))]
                ELSE IF ~chunk.is_chunk
                THEN [chat EXCEPT !.pc = "closed",
                                  !.events = Append(@, Event("error", ""))]
                ELSE [chat EXCEPT
                        !.stream = Tail(@),
                        !.events = IF chunk.choices /\ chunk.content # ""
                                   THEN Append(@, Event("content", chunk.content))
                                   ELSE @]
    /\ UNCHANGED <<video, snapshot, video_score, request, surge, trend, dedup,
                   rerank, intent, featured, features>>

\* The stream is exhausted: yield "data: [DONE]".
ChatEnd ==
    /\ chat.pc = "loop"
    /\ chat.stream = <<>>
    /\ chat' = [chat EXCEPT !.pc = "closed",
                            !.events = Append(@, Event("data", "[DONE]"))]
    /\ UNCHANGED <<video, snapshot, video_score, request, surge, trend, dedup,
                   rerank, intent, featured, features>>

\* The buckets get_featured may have returned to answer_with_trends.
Buckets == {<<>>, <<"v1">>}

ChatInit ==
    /\ video = [vid \in VideoIds |-> SurgeProfiles[1].v]
    /\ snapshot = [vid \in VideoIds |-> {}]
    /\ video_score = [vid \in VideoIds |-> Null]
    /\ request = [platform |-> Null, limit |-> 1, days |-> 3, velocity_days |-> 1]
    /\ surge = NoSurge
    /\ trend = NoTrend
    /\ dedup = NoDedup
    /\ rerank = NoRerank
    /\ intent = NoIntent
    /\ featured = NoFeatured
    /\ \E conversation \in BOOLEAN, label \in {"trend", "general"},
          popular \in Buckets, rising \in Buckets :
          chat = [NoChat EXCEPT !.conversation_id = conversation,
                                !.intent = label,
                                !.trends = [popular |-> popular, rising |-> rising]]
    /\ features = NoFeatures

ChatNext == ChatStart \/ ChatChunk \/ ChatEnd

ChatSpec == ChatInit /\ [][ChatNext]_vars

\* The events of a closed stream hold the message as content, then [DONE] as
\* the last event.
MessageThenDone ==
    /\ chat.events # <<>>
    /\ chat.events[Len(chat.events)] = Event("data", "[DONE]")
    /\ \E i \in DOMAIN chat.events :
          chat.events[i] = Event("content", InsufficientMessage)

NoErrorEvent == \A i \in DOMAIN chat.events : chat.events[i].type # "error"

\* C18 as claimed: when both the popular and the rising bucket are empty, the
\* chat stream (towards a client that stays connected) delivers the 'not
\* enough trend data' message followed by [DONE] and no error event, and
\* answer_with_trends does not call the text-generation service.
C18_EmptyIsNotAnError ==
    (/\ chat.pc = "closed"
     /\ chat.intent = "trend"
     /\ chat.trends.popular = <<>>
     /\ chat.trends.rising = <<>>
     /\ ~chat.disconnected)
        => /\ MessageThenDone
           /\ NoErrorEvent
           /\ chat.generation_calls = 0

---------------------------------------------------------------------------
(* Frame of the engine's calls *)

\* The video ids of the list fetch_surge_videos returned.
ReturnedIds(result) == {result[i].video_id : i \in DOMAIN result}

\* A step changes no video and no snapshot row; a score row that exists stays,
\* with its platform, engagement_score, sentiment_score and total_score; and
\* a score row differs after the step only for a video that a call of
\* fetch_surge_videos made in this step returned.
FrameStep ==
    /\ video' = video
    /\ snapshot' = snapshot
    /\ \A vid \in VideoIds :
          /\ ~IsNull(video_score[vid]) =>
                /\ ~IsNull(video_score'[vid])
                /\ Val(video_score'[vid]).platform = Val(video_score[vid]).platform
                /\ Val(video_score'[vid]).engagement_score
                      = Val(video_score[vid]).engagement_score
                /\ Val(video_score'[vid]).sentiment_score
                      = Val(video_score[vid]).sentiment_score
                /\ Val(video_score'[vid]).total_score
                      = Val(video_score[vid]).total_score
          /\ video_score'[vid] # video_score[vid] =>
                /\ surge'.calls = surge.calls + 1
                /\ vid \in ReturnedIds(surge'.result)

\* C19: the surge scorer's score write is the only mutation: over any
\* sequence of fetch_surge_videos, get_featured, fetch_popular_videos and
\* fetch_rising_videos calls there is one score row per video_id at most,
\* the engagement_score, sentiment_score and total_score of a row that
\* existed are unchanged, only trend_score and updated_at of returned
\* candidates differ, and no video or snapshot row is modified.
C19_OnlyCacheFieldsChange == [][FrameStep]_vars

\* A row that existed before carries a new trend_score and its old
\* engagement_score after a surge call and a get_featured call.
C19_Witness ==
    /\ surge.calls = 1
    /\ featured.called
    /\ \E vid \in VideoIds :
          /\ ~IsNull(video_score[vid])
          /\ Val(video_score[vid]).engagement_score = Some(40)
          /\ Val(video_score[vid]).trend_score # Some(500)
          /\ Val(video_score[vid]).updated_at = Some(0)
    /\ \E vid \in VideoIds : video_score[vid] = ScoreRow(Some(40), Null, Some(500), Null)

---------------------------------------------------------------------------
(* compute_surge_features *)

MaxSamples == 3

\* Default windows, in minutes.
Window10m == 10
Window30m == 30
Window1h == 60
Window6h == 360

\* A float as an exact fraction with a positive denominator.
Frac(n, d) == [num |-> n, den |-> d]

FracMinus(a, b) == Frac(a.num * b.den - b.num * a.den, a.den * b.den)

ViewSample(timestamp, view_count) ==
    [timestamp |-> timestamp, view_count |-> view_count]

\* SurgeFeatures(): every field None.
EmptySurgeFeatures ==
    [delta_views_10m |-> Null, delta_views_30m |-> Null,
     delta_views_1h |-> Null, delta_views_6h |-> Null,
     growth_rate_10m |-> Null, growth_rate_30m |-> Null,
     growth_rate_1h |-> Null, growth_rate_6h |-> Null,
     acceleration_10m_vs_30m |-> Null,
     age_minutes |-> Null, age_hours |-> Null,
     baseline_velocity_10m_per_min |-> Null,
     velocity_10m_per_min |-> Null,
     ratio_velocity_10m_to_baseline |-> Null,
     co_movement_score |-> Null]

\* sorted(list(samples), key=lambda s: s.timestamp): stable.
RECURSIVE InsertByTimestamp(_, _)
InsertByTimestamp(sorted, s) ==
    IF sorted = <<>> THEN <<s>>
    ELSE IF sorted[Len(sorted)].timestamp <= s.timestamp THEN Append(sorted, s)
    ELSE Append(InsertByTimestamp(SubSeq(sorted, 1, Len(sorted) - 1), s),
                sorted[Len(sorted)])

\* The samples taken in the order given, without the sort.
SortByTimestampSkipped(samples, sorted) == sorted \o samples

RECURSIVE SortByTimestamp(_, _)
SortByTimestamp(samples, sorted) ==
    IF samples = <<>> THEN sorted
    ELSE SortByTimestamp(Tail(samples), InsertByTimestamp(sorted, Head(samples)))

\* _find_reference_view with `<` for `<=`: a sample at the target time is not
\* taken.
RECURSIVE FindReferenceViewBefore(_, _, _)
FindReferenceViewBefore(samples, target_time, ref) ==
    IF samples = <<>> THEN ref
    ELSE IF Head(samples).timestamp < target_time
         THEN FindReferenceViewBefore(Tail(samples), target_time,
                                      Some(Head(samples).view_count))
         ELSE ref

\* _find_reference_view: the view_count of the last sample at or before
\* target_time; the loop breaks at the first later sample.
RECURSIVE FindReferenceView(_, _, _)
FindReferenceView(samples, target_time, ref) ==
    IF samples = <<>> THEN ref
    ELSE IF Head(samples).timestamp <= target_time
         THEN FindReferenceView(Tail(samples), target_time,
                                Some(Head(samples).view_count))
         ELSE ref

\* _delta_and_growth with no growth for a reference of zero views.
DeltaAndGrowthPositiveBase(history, window_minutes) ==
    LET now == history[Len(history)].timestamp
        views_now == history[Len(history)].view_count
        target_time == now - window_minutes
        prev_views == FindReferenceView(history, target_time, Null)
    IN  IF IsNull(prev_views)
        THEN [delta |-> Null, growth |-> Null, velocity |-> Null]
        ELSE LET delta == views_now - Val(prev_views)
                 elapsed_minutes == Max2(now - target_time, 1)
             IN  [delta |-> Some(delta),
                  growth |-> IF Val(prev_views) > 0
                             THEN Some(Frac(delta, Val(prev_views))) ELSE Null,
                  velocity |-> Some(Frac(delta, elapsed_minutes))]

\* _delta_and_growth(window_minutes) over the sorted history.
DeltaAndGrowth(history, window_minutes) ==
    LET now == history[Len(history)].timestamp
        views_now == history[Len(history)].view_count
        target_time == now - window_minutes
        prev_views == FindReferenceView(history, target_time, Null)
    IN  IF IsNull(prev_views)
        THEN [delta |-> Null, growth |-> Null, velocity |-> Null]
        ELSE LET delta == views_now - Val(prev_views)
                 base == IF Val(prev_views) > 0 THEN Val(prev_views) ELSE 1
                 elapsed_minutes == Max2(now - target_time, 1)
             IN  [delta |-> Some(delta),
                  growth |-> Some(Frac(delta, base)),
                  velocity |-> Some(Frac(delta, elapsed_minutes))]

\* [v for v in channel_baseline_velocities_10m if v is not None]
RECURSIVE NotNone(_)
NotNone(values) ==
    IF values = <<>> THEN <<>>
    ELSE IF IsNull(Head(values)) THEN NotNone(Tail(values))
    ELSE <<Val(Head(values))>> \o NotNone(Tail(values))

RECURSIVE Sum(_)
Sum(values) == IF values = <<>> THEN 0 ELSE Head(values) + Sum(Tail(values))

\* compute_surge_features(samples, published_at,
\*                        channel_baseline_velocities_10m, co_movement_score)
ComputeSurgeFeatures(samples, published_at, baselines, co_movement_score) ==
    LET history == SortByTimestamp(samples, <<>>)
    IN  IF history = <<>> THEN EmptySurgeFeatures
        ELSE
        LET now == history[Len(history)].timestamp
            w10 == DeltaAndGrowth(history, Window10m)
            w30 == DeltaAndGrowth(history, Window30m)
            w1h == DeltaAndGrowth(history, Window1h)
            w6h == DeltaAndGrowth(history, Window6h)
            age_minutes == IF IsNull(published_at) THEN Null
                           ELSE Some(Max2(now - Val(published_at), 0))
            velocities == NotNone(baselines)
            baseline == IF velocities = <<>> THEN Null
                        ELSE Some(Frac(Sum(velocities), Len(velocities)))
        IN  [delta_views_10m |-> w10.delta, delta_views_30m |-> w30.delta,
             delta_views_1h |-> w1h.delta, delta_views_6h |-> w6h.delta,
             growth_rate_10m |-> w10.growth, growth_rate_30m |-> w30.growth,
             growth_rate_1h |-> w1h.growth, growth_rate_6h |-> w6h.growth,
             acceleration_10m_vs_30m |->
                 IF ~IsNull(w10.growth) /\ ~IsNull(w30.growth)
                 THEN Some(FracMinus(Val(w10.growth), Val(w30.growth)))
                 ELSE Null,
             age_minutes |-> age_minutes,
             age_hours |-> IF IsNull(age_minutes) THEN Null
                           ELSE Some(Frac(Val(age_minutes), 60)),
             baseline_velocity_10m_per_min |-> baseline,
             velocity_10m_per_min |-> w10.velocity,
             ratio_velocity_10m_to_baseline |->
                 IF ~IsNull(baseline) /\ ~IsNull(w10.velocity)
                    /\ Val(baseline).num > 0
                 THEN Some(Frac(Val(w10.velocity).num * Val(baseline).den,
                                Val(w10.velocity).den * Val(baseline).num))
                 ELSE Null,
             co_movement_score |-> co_movement_score]

\* One call of compute_surge_features.
ComputeFeatures ==
    /\ ~features.called
    /\ features' = [features EXCEPT
                      !.called = TRUE,
                      !.result = ComputeSurgeFeatures(
                                   features.samples, features.published_at,
                                   features.channel_baseline_velocities_10m,
                                   features.co_movement_score)]
    /\ UNCHANGED <<video, snapshot, video_score, request, surge, trend, dedup,
                   rerank, intent, featured, chat>>

\* Sample times in minutes and view counts.
SampleTimes == {0, 300, 350, 360}

SampleViews == {0, 100, 150}

SampleSeries(n) ==
    UNION {[1..k -> {ViewSample(t, v) : t \in SampleTimes, v \in SampleViews}]
             : k \in 0..n}

\* The other arguments: all absent, or all given.
OtherArguments ==
    { [published_at |-> Null, baselines |-> <<>>, co_movement_score |-> Null],
      [published_at |-> Some(300), baselines |-> <<Null, Some(5)>>,
       co_movement_score |-> Some(1)] }

FeatureInit ==
    /\ video = [vid \in VideoIds |-> SurgeProfiles[1].v]
    /\ snapshot = [vid \in VideoIds |-> {}]
    /\ video_score = [vid \in VideoIds |-> Null]
    /\ request = [platform |-> Null, limit |-> 1, days |-> 3, velocity_days |-> 1]
    /\ surge = NoSurge
    /\ trend = NoTrend
    /\ dedup = NoDedup
    /\ rerank = NoRerank
    /\ intent = NoIntent
    /\ featured = NoFeatured
    /\ chat = NoChat
    /\ \E samples \in SampleSeries(MaxSamples), other \in OtherArguments :
          features = [NoFeatures EXCEPT
                        !.samples = samples,
                        !.published_at = other.published_at,
                        !.channel_baseline_velocities_10m = other.baselines,
                        !.co_movement_score = other.co_movement_score]

FeatureNext == ComputeFeatures

FeatureSpec == FeatureInit /\ [][FeatureNext]_vars

---------------------------------------------------------------------------
(* Properties of compute_surge_features *)

\* The position of the latest sample among the positions S: the greatest
\* timestamp, and among equal timestamps the last in the input.
LastOf(S) ==
    CHOOSE i \in S : \A j \in S :
        \/ features.samples[j].timestamp < features.samples[i].timestamp
        \/ /\ features.samples[j].timestamp = features.samples[i].timestamp
           /\ j <= i

LatestSample == features.samples[LastOf(DOMAIN features.samples)]

\* The positions of the samples at or before now - w.
AtOrBefore(w) ==
    {i \in DOMAIN features.samples :
        features.samples[i].timestamp <= LatestSample.timestamp - w}

\* The window's outputs are as the claim says: None without a reference, and
\* otherwise computed from the reference sample.
WindowAsClaimed(w, delta, growth) ==
    IF AtOrBefore(w) = {}
    THEN delta = Null /\ growth = Null
    ELSE LET ref == features.samples[LastOf(AtOrBefore(w))].view_count
             d == LatestSample.view_count - ref
         IN  /\ delta = Some(d)
             /\ growth = Some(Frac(d, IF ref > 0 THEN ref ELSE 1))

\* C20: for each window w of 10m, 30m, 1h and 6h compute_surge_features takes
\* as reference the view_count of the last sample with timestamp <= now - w,
\* now being the timestamp of the latest sample; without such a sample the
\* delta, growth and velocity of the window are None, not 0; and an empty
\* series yields a SurgeFeatures with every field None.
C20_WindowReference ==
    features.called =>
        IF features.samples = <<>>
        THEN features.result = EmptySurgeFeatures
        ELSE LET r == features.result
             IN  /\ WindowAsClaimed(Window10m, r.delta_views_10m, r.growth_rate_10m)
                 /\ WindowAsClaimed(Window30m, r.delta_views_30m, r.growth_rate_30m)
                 /\ WindowAsClaimed(Window1h, r.delta_views_1h, r.growth_rate_1h)
                 /\ WindowAsClaimed(Window6h, r.delta_views_6h, r.growth_rate_6h)
                 /\ IF AtOrBefore(Window10m) = {}
                    THEN r.velocity_10m_per_min = Null
                    ELSE r.velocity_10m_per_min
                            = Some(Frac(Val(r.delta_views_10m), Window10m))

\* An unsorted series with a sample exactly ten minutes before the latest
\* one and none thirty minutes before it: the 10m delta is a computed zero
\* and the 30m outputs are None.
C20_Witness ==
    /\ features.called
    /\ Len(features.samples) = 3
    /\ features.samples[1].timestamp = 360
    /\ features.samples[2].timestamp = 350
    /\ features.samples[3].timestamp = 350
    /\ features.result.delta_views_10m = Some(0)
    /\ features.result.delta_views_30m = Null
    /\ features.result.growth_rate_30m = Null
    /\ features.samples[2].view_count # features.samples[3].view_count

---------------------------------------------------------------------------
(* Further properties of fetch_surge_videos *)

\* The view count of the latest snapshot of the video dated at or before
\* today minus velocity_days, 0 without one.
ViewsAtOffset(vid, velocity_days) ==
    LET at == LatestOf({s \in snapshot[vid] :
                          s.snapshot_date <= ToDate - velocity_days})
    IN  IF IsNull(at) THEN 0 ELSE Val(at).view_count

\* C21 as claimed: for every surge candidate view_count_prev is the view
\* count of the most recent snapshot dated at or before today minus
\* velocity_days, 0 when there is none.
C21_PrevAtVelocityOffset ==
    surge.calls > 0 =>
        \A i \in DOMAIN surge.rows :
            SurgeRow(surge.rows[i], request.velocity_days).view_count_prev
                = ViewsAtOffset(surge.rows[i], request.velocity_days)

---------------------------------------------------------------------------
(* Further properties of _enforce_diversity *)

---------------------------------------------------------------------------
(* Stores for the "same value" fallback of fetch_surge_videos *)

\* A video and its snapshot series:
\*   1  youtube, flat at 500 since yesterday, 200 the day before
\*   2  tiktok, the same series
\*   3  youtube, flat at 100 with no other value in its history
\*   4  youtube, 100 views and no snapshot
\*   5  youtube, grown from 500 to 1000
FallbackProfiles ==
    << [v |-> VideoRow("youtube", "c1", 500, 0, Some(48), -2),
        s |-> {Snap(-2, 200, 0, 0), Snap(-1, 500, 0, 0), Snap(0, 500, 0, 0)}],
       [v |-> VideoRow("tiktok", "c2", 500, 0, Some(48), -2),
        s |-> {Snap(-2, 200, 0, 0), Snap(-1, 500, 0, 0), Snap(0, 500, 0, 0)}],
       [v |-> VideoRow("youtube", "c1", 100, 0, Some(30), -1),
        s |-> {Snap(-1, 100, 0, 0), Snap(0, 100, 0, 0)}],
       [v |-> VideoRow("youtube", "c3", 100, 0, Some(30), -1), s |-> {}],
       [v |-> VideoRow("youtube", "c3", 1000, 0, Some(24), -1),
        s |-> {Snap(-1, 500, 0, 0), Snap(0, 1000, 0, 0)}] >>

FallbackInit ==
    /\ \E prof \in [1..Len(VideoSeq) -> DOMAIN FallbackProfiles] :
          /\ \A i, j \in DOMAIN prof : i < j => prof[i] <= prof[j]
          /\ video = [vid \in VideoIds |->
                        FallbackProfiles[prof[CHOOSE i \in DOMAIN VideoSeq : VideoSeq[i] = vid]].v]
          /\ snapshot = [vid \in VideoIds |->
                        FallbackProfiles[prof[CHOOSE i \in DOMAIN VideoSeq : VideoSeq[i] = vid]].s]
    /\ video_score = [vid \in VideoIds |-> Null]
    /\ request \in [platform : {Null}, limit : {2, 3}, days : {3},
                    velocity_days : {1}]
    /\ surge = NoSurge
    /\ trend = NoTrend
    /\ dedup = NoDedup
    /\ UsecaseIdle

FallbackNext == FetchSurgeVideos

FallbackSpec == FallbackInit /\ [][FallbackNext]_vars

\* The previous view count as the claim resolves it: when the row's previous
\* and current values are equal and positive, the view count of the latest
\* snapshot of the video dated at or before yesterday that differs from the
\* current one, if there is one.
ClaimedViewPrev(r) ==
    IF r.view_count_prev = r.view_count /\ r.view_count_prev > 0
    THEN LET alt == LatestOf({s \in snapshot[r.video_id] :
                                /\ s.snapshot_date <= ToDate - 1
                                /\ s.view_count # r.view_count})
         IN  IF IsNull(alt) THEN r.view_count_prev ELSE Val(alt).view_count
    ELSE r.view_count_prev

\* C23 as claimed: when the previous view count of a surge candidate equals
\* the current one and is positive, it is replaced by the view count of the
\* most recent snapshot of the same video and platform dated at or before
\* yesterday that differs from the current one; without such a snapshot it
\* is kept and the change is 0; otherwise the fallback is not consulted.
C23_FallbackToDifferingSnapshot ==
    \A i \in DOMAIN surge.result :
        LET item == surge.result[i]
            r == SurgeRow(item.video_id, request.velocity_days)
        IN  item.view_count_change = r.view_count - ClaimedViewPrev(r)

---------------------------------------------------------------------------
(* Further properties of compute_surge_features *)

\* Equality of optional fractions by value.
SameNumber(a, b) ==
    IF IsNull(a) \/ IsNull(b) THEN a = b ELSE FracEqual(Val(a), Val(b))

\* The growth of a window with a reference sample is delta / max(prev, 1).
GrowthAsClaimed(w, delta, growth) ==
    AtOrBefore(w) # {} =>
        LET ref == features.samples[LastOf(AtOrBefore(w))].view_count
        IN  /\ delta = Some(LatestSample.view_count - ref)
            /\ ~IsNull(growth)
            /\ SameNumber(growth, Some(Frac(Val(delta), Max2(ref, 1))))

\* C24: for every window with a reference sample compute_surge_features
\* yields delta = views_now - prev_views, growth = delta / max(prev_views, 1),
\* a number also for a zero reference, and velocity = delta /
\* max(window_minutes, 1); acceleration_10m_vs_30m is growth_10m - growth_30m
\* exactly when both growths exist and None otherwise.
C24_DeltaGrowthVelocity ==
    (features.called /\ features.samples # <<>>) =>
        LET r == features.result
        IN  /\ GrowthAsClaimed(Window10m, r.delta_views_10m, r.growth_rate_10m)
            /\ GrowthAsClaimed(Window30m, r.delta_views_30m, r.growth_rate_30m)
            /\ GrowthAsClaimed(Window1h, r.delta_views_1h, r.growth_rate_1h)
            /\ GrowthAsClaimed(Window6h, r.delta_views_6h, r.growth_rate_6h)
            /\ AtOrBefore(Window10m) # {} =>
                  SameNumber(r.velocity_10m_per_min,
                             Some(Frac(Val(r.delta_views_10m), Max2(Window10m, 1))))
            /\ IF ~IsNull(r.growth_rate_10m) /\ ~IsNull(r.growth_rate_30m)
               THEN SameNumber(r.acceleration_10m_vs_30m,
                               Some(FracMinus(Val(r.growth_rate_10m),
                                              Val(r.growth_rate_30m))))
               ELSE IsNull(r.acceleration_10m_vs_30m)

\* The 10m reference has zero views and the latest sample 100: growth is the
\* number 100, an acceleration exists, and the 6h window has no reference.
C24_Witness ==
    /\ features.called
    /\ features.samples = <<ViewSample(300, 100), ViewSample(350, 0),
                            ViewSample(360, 100)>>
    /\ features.result.growth_rate_10m = Some(Frac(100, 1))
    /\ features.result.velocity_10m_per_min = Some(Frac(100, 10))
    /\ ~IsNull(features.result.acceleration_10m_vs_30m)
    /\ IsNull(features.result.growth_rate_6h)

---------------------------------------------------------------------------
(* Stores for the freshness brackets of fetch_surge_videos *)

\* Ages in hours at and just past each bracket boundary; a negative age is a
\* publish time in the future.
FreshnessAges == {-5, 0, 24, 25, 48, 49, 72, 73}

\* A video of every age, and one without published_at.
FreshnessProfiles ==
    {VideoRow("youtube", "c1", 100, 0, Some(h), -1) : h \in FreshnessAges}
        \cup {VideoRow("youtube", "c1", 100, 0, Null, -1)}

\* Two videos of one age and a third of another, of which a call returns two.
FreshnessInit ==
    /\ video \in [VideoIds -> FreshnessProfiles]
    /\ video["v1"].published_at # video["v2"].published_at
    /\ video["v2"].published_at = video["v3"].published_at
    /\ snapshot = [vid \in VideoIds |-> {}]
    /\ video_score = [vid \in VideoIds |-> Null]
    /\ request \in [platform : {Null}, limit : {2}, days : {4},
                    velocity_days : {1}]
    /\ surge = NoSurge
    /\ trend = NoTrend
    /\ dedup = NoDedup
    /\ UsecaseIdle

FreshnessNext == FetchSurgeVideos

FreshnessSpec == FreshnessInit /\ [][FreshnessNext]_vars

\* C25: the freshness bonus of a surge candidate is 1.5 up to 24 hours of
\* age, 1.2 up to 48, 1.1 up to 72 and 1.0 beyond, each boundary belonging
\* to the younger bracket and a publish time in the future counting as age
\* 0; without published_at the freshness is 0.5, the bonus 1.0 and the age
\* None.
C25_FreshnessBrackets ==
    \A i \in DOMAIN surge.result :
        LET item == surge.result[i]
            published_at == video[item.video_id].published_at
        IN  IF IsNull(published_at)
            THEN /\ item.freshness_score = 5000
                 /\ item.freshness_bonus = 10
                 /\ item.age_hours = Null
            ELSE LET age == IF Val(published_at) < 0 THEN 0 ELSE Val(published_at)
                 IN  /\ item.age_hours = Some(age)
                     /\ item.freshness_bonus =
                           CASE age <= 24 -> 15
                             [] age > 24 /\ age <= 48 -> 12
                             [] age > 48 /\ age <= 72 -> 11
                             [] OTHER -> 10

\* One returned video is exactly 48 hours old with bonus 1.2 and another has
\* no published_at.
C25_Witness ==
    /\ \E i \in DOMAIN surge.result :
          /\ surge.result[i].age_hours = Some(48)
          /\ surge.result[i].freshness_bonus = 12
    /\ \E i \in DOMAIN surge.result :
          /\ surge.result[i].published_at = Null
          /\ surge.result[i].freshness_score = 5000

---------------------------------------------------------------------------
(* Further properties of get_featured *)

\* C26 as claimed: the recommended bucket of a get_featured call holds no
\* video_id more than once, a rising row of a video that is already among
\* the popular rows being left out of the merge.
C26_RecommendedDistinct ==
    featured.called =>
        \A i, j \in DOMAIN featured.result.recommended :
            i < j => featured.result.recommended[i].video_id
                        # featured.result.recommended[j].video_id

\* The videos of the candidate window of the request.
SurgeWindow ==
    {vid \in VideoIds : SurgeInWindow(vid, request.platform, request.days)}

\* The surge_score the scoring loop gives a video of the window.
WindowScore(vid) ==
    RoundHalfEven(SurgeScoreMilli(SurgeRow(vid, request.velocity_days)))

\* C27 as claimed: when the candidate window holds more than limit videos,
\* the items fetch_surge_videos returns are the limit videos of the window
\* with the highest surge_score: no video left out has a surge_score greater
\* than that of a returned video.
C27_TopBySurgeScore ==
    (surge.calls > 0 /\ ~surge.raised /\ Cardinality(SurgeWindow) > request.limit)
        => \A vid \in SurgeWindow \ ReturnedIds(surge.result) :
              \A i \in DOMAIN surge.result :
                  WindowScore(vid) <= surge.result[i].surge_score

---------------------------------------------------------------------------
(* Order independence of compute_surge_features *)

\* The samples carry pairwise distinct timestamps.
DistinctTimestamps(samples) ==
    \A i, j \in DOMAIN samples :
        i # j => samples[i].timestamp # samples[j].timestamp

\* The samples in the order p of their positions.
Permuted(samples, p) == [i \in DOMAIN samples |-> samples[p[i]]]

\* C28: for samples with pairwise distinct timestamps compute_surge_features
\* does not depend on the order of its input: every permutation of the
\* samples yields the same SurgeFeatures as the call that was made.
C28_OrderIndependent ==
    (features.called /\ DistinctTimestamps(features.samples)) =>
        \A p \in Orderings(DOMAIN features.samples) :
            ComputeSurgeFeatures(Permuted(features.samples, p),
                                 features.published_at,
                                 features.channel_baseline_velocities_10m,
                                 features.co_movement_score)
                = features.result

\* Three samples given latest first: the call used the sample at 360 as
\* "now" and the one at 300 as the 1h reference.
C28_Witness ==
    /\ features.called
    /\ features.samples = <<ViewSample(360, 150), ViewSample(300, 100),
                            ViewSample(0, 0)>>
    /\ features.result.delta_views_1h = Some(50)
    /\ features.result.delta_views_6h = Some(150)

---------------------------------------------------------------------------
(* The event protocol of chat_stream *)

\* The generator is resumed for as long as it has something to do: the
\* response is iterated until the generator returns, and the stream of the
\* text-generation service is finite.
ChatLiveSpec == ChatInit /\ [][ChatNext]_vars /\ WF_vars(ChatNext)

\* "data: [DONE]" and "event: error".
Terminal(e) == e = Event("data", "[DONE]") \/ e.type = "error"

\* The positions of the events of one kind.
Positions(events, type) == {i \in DOMAIN events : events[i].type = type}

\* At most one terminal event, and it is the last event; the conversationId
\* event is sent exactly when the request carries one, and first; the videos
\* event comes before every content event.
WellFormed(events) ==
    /\ \A i \in DOMAIN events : Terminal(events[i]) => i = Len(events)
    /\ Positions(events, "conversationId")
          = IF chat.conversation_id /\ events # <<>> THEN {1} ELSE {}
    /\ \A i \in Positions(events, "videos"), j \in Positions(events, "content") :
          i < j
    /\ chat.intent = "trend" =>
          (Positions(events, "content") # {} => Positions(events, "videos") # {})

\* A closed stream ends with its terminal event.
Terminated ==
    /\ chat.pc = "closed"
    /\ chat.events # <<>>
    /\ Terminal(chat.events[Len(chat.events)])

\* Nothing is emitted after the terminal event, and no content event in or
\* after the step that observes the client disconnected.
QuietStep ==
    /\ Terminated => chat'.events = chat.events
    /\ chat'.disconnected =>
          Positions(chat'.events, "content") = Positions(chat.events, "content")

---------------------------------------------------------------------------
(* chat_stream routed by _classify_intent *)

\* chat_stream line 126: the intent of the request is the label
\* _classify_intent returned for its messages.
ChatClassified ==
    /\ chat.pc = "classify"
    /\ intent.caller[1].pc = "idle"
    /\ intent.caller[1].label # ""
    /\ chat' = [chat EXCEPT !.pc = "idle", !.intent = intent.caller[1].label]
    /\ UNCHANGED <<video, snapshot, video_score, request, surge, trend, dedup,
                   rerank, intent, featured, features>>

\* The shipped module with or without an embedding client; the last user
\* message is any text, or "" when the messages hold no user message.
RoutingInit ==
    /\ RestOfEngineIdle
    /\ rerank = NoRerank /\ featured = NoFeatured /\ features = NoFeatures
    /\ \E client \in BOOLEAN :
          intent = [prototypes |-> ShippedPrototypes, client |-> client,
                    texts |-> QueryTexts \cup {""}, cache |-> <<>>, calls |-> 0,
                    prototype_embeds |-> 0, active |-> {1},
                    caller |-> [c \in 1..MaxCallers |-> IdleCaller]]
    /\ \E conversation \in BOOLEAN, popular \in Buckets :
          chat = [NoChat EXCEPT !.pc = "classify",
                                !.conversation_id = conversation,
                                !.trends = [popular |-> popular, rising |-> <<>>]]

RoutingNext ==
    \/ chat.pc = "classify" /\ IntentNext
    \/ ChatClassified
    \/ ChatStart
    \/ ChatChunk
    \/ ChatEnd

RoutingSpec == RoutingInit /\ [][RoutingNext]_vars

===========================================================================
